---- MODULE Spec2Model ----
(***************************************************************************)
(* Jarwik: the two-tier intent pipeline, the action dispatchers of the     *)
(* chat / voice / SMS routes and the calendar scheduling engine.           *)
(*                                                                         *)
(* Instants are minutes on one time line (minute 0 = midnight of day 0 in  *)
(* the server's local zone).  The event store is the set of events of the  *)
(* account's primary calendar.  Every request is handled sequentially      *)
(* (each await completes before the next statement), so one request is one *)
(* action; the external calls it makes are kept, in order, in a call log.  *)
(***************************************************************************)
EXTENDS Integers, Sequences, FiniteSets, TLC

VARIABLES events, now, last

vars == <<events, now, last>>

\* An optional value is the empty set or a singleton; an absent instant is NoTime.
None == {}
Some(x) == {x}
The(S) == CHOOSE x \in S : TRUE
NoTime == 0 - 1

\* ---------------------------------------------------------------- bounds
MaxEvents == 2
MaxSlot == 2

\* ------------------------------------------------------ program constants
SlotStep == 30
MaxFreeSlots == 10
MaxSuggestions == 5
ConflictBuffer == 30
SearchDays == 7
OptimalDays == 14
MaxAlternatives == 3

MinutesPerDay == 24 * 60
DayStart == 10 * 60

\* Start times and lengths the requests of the model are drawn from.
Starts == { DayStart + SlotStep * k : k \in 0..MaxSlot }
Durations == {45, 60}
NowValues == { 9 * 60 }

\* ------------------------------------------------------------- utilities
Min2(a, b) == IF a < b THEN a ELSE b

Hour(t) == (t \div 60) % 24

Head5(s) == SubSeq(s, 1, Min2(Len(s), MaxSuggestions))

SeqFilter(s, Keep(_)) ==
  LET F[i \in 0..Len(s)] ==
        IF i = 0 THEN << >>
        ELSE IF Keep(s[i]) THEN Append(F[i-1], s[i]) ELSE F[i-1]
  IN F[Len(s)]

Call(op, ok) == [op |-> op, ok |-> ok]

\* What the external services do in one request: which calls fail.
\*   list   : events.list inside checkConflicts
\*   lookup : events.list of rescheduleEvent / of the dispatcher itself
\*   fb     : freebusy.query
\*   insert : events.insert ("ok", "null" = empty response body, "throw")
\*   patch  : events.patch
Envs ==
  [list : BOOLEAN, lookup : BOOLEAN, fb : BOOLEAN,
   insert : {"ok", "null", "throw"}, patch : BOOLEAN]

EnvOk == [list |-> TRUE, lookup |-> TRUE, fb |-> TRUE, insert |-> "ok", patch |-> TRUE]

\* At most one kind of call fails in a request.
EnvsOneFailure ==
  { e \in Envs :
      Cardinality({ k \in {"list", "lookup", "fb", "insert", "patch"} : e[k] # EnvOk[k] }) <= 1 }

\* ------------------------------------------------------- calendar service
Overlaps(startTime, endTime, event) ==
  startTime < event.end /\ endTime > event.start

\* events.list of the primary calendar: timeMin bounds the events' end,
\* timeMax their start (both exclusive); a failed call is swallowed as [].
GetEvents(evs, ok, timeMin, timeMax) ==
  IF ~ok THEN {}
  ELSE { e \in evs : (timeMin = NoTime \/ e.end > timeMin)
                  /\ (timeMax = NoTime \/ e.start < timeMax) }

NewId(evs) ==
  CHOOSE i \in 1..(Cardinality(evs) + 1) : \A e \in evs : e.id # i

\* createEvent: the insert either throws (nothing stored), or stores the
\* event and returns it (or null when the response carries no body).
CreateEvent(evs, env, start, end) ==
  IF env.insert = "throw"
  THEN [threw |-> TRUE, event |-> None, evs |-> evs,
        calls |-> << Call("events.insert", FALSE) >>]
  ELSE LET ev == [id |-> NewId(evs), start |-> start, end |-> end]
       IN [threw |-> FALSE,
           event |-> IF env.insert = "ok" THEN Some(ev) ELSE None,
           evs |-> evs \cup {ev},
           calls |-> << Call("events.insert", TRUE) >>]

\* Mutant of PatchTimes: the patch carries the new start only.
PatchTimes_StartOnly(evs, eventId, start, end) ==
  { IF e.id = eventId THEN [e EXCEPT !.start = start] ELSE e : e \in evs }

PatchTimes(evs, eventId, start, end) ==
  { IF e.id = eventId THEN [e EXCEPT !.start = start, !.end = end] ELSE e : e \in evs }

\* updateEvent(start, end): a failed patch is swallowed as false.
UpdateEvent(evs, env, eventId, start, end) ==
  IF env.patch /\ \E e \in evs : e.id = eventId
  THEN [ok |-> TRUE, evs |-> PatchTimes(evs, eventId, start, end),
        calls |-> << Call("events.patch", TRUE) >>]
  ELSE [ok |-> FALSE, evs |-> evs, calls |-> << Call("events.patch", FALSE) >>]

RECURSIVE FreeScan(_, _, _, _, _)
\* The scan of findFreeTime; the code scans to the end and keeps the first
\* ten, which is the scan stopped at the tenth free slot.
FreeScan(busy, duration, currentTime, endDate, freeSlots) ==
  IF ~(currentTime < endDate) \/ Len(freeSlots) = MaxFreeSlots THEN freeSlots
  ELSE LET slotEnd == currentTime + duration
           isSlotFree == ~ \E b \in busy : currentTime < b.end /\ slotEnd > b.start
       IN FreeScan(busy, duration, currentTime + SlotStep, endDate,
                   IF isSlotFree THEN Append(freeSlots, currentTime) ELSE freeSlots)

FindFreeTime(evs, env, duration, timeMin, timeMax) ==
  IF ~env.fb THEN << >>
  ELSE FreeScan({ e \in evs : e.end > timeMin /\ e.start < timeMax },
                duration, timeMin, timeMax, << >>)

CheckConflicts(evs, env, startTime, endTime) ==
  LET existingEvents == GetEvents(evs, env.list, startTime - ConflictBuffer,
                                  endTime + ConflictBuffer)
      conflicts == { e \in existingEvents : Overlaps(startTime, endTime, e) }
      hasConflicts == conflicts # {}
      suggestions ==
        IF hasConflicts
        THEN FindFreeTime(evs, env, endTime - startTime, startTime,
                          startTime + SearchDays * MinutesPerDay)
        ELSE << >>
  IN [hasConflicts |-> hasConflicts,
      conflicts |-> conflicts,
      suggestions |-> Head5(suggestions),
      calls |-> << Call("events.list", env.list) >>
                \o (IF hasConflicts THEN << Call("freebusy.query", env.fb) >> ELSE << >>)]

RECURSIVE FilterSlotsWithBuffer(_, _, _, _, _, _)
\* Returns the kept slots and the calls made, after position i of slots.
FilterSlotsWithBuffer(evs, env, slots, duration, bufferTime, i) ==
  IF i > Len(slots) THEN [slots |-> << >>, calls |-> << >>]
  ELSE LET slot == slots[i]
           conflictCheck == CheckConflicts(evs, env, slot - bufferTime,
                                           slot + duration + bufferTime)
           rest == FilterSlotsWithBuffer(evs, env, slots, duration, bufferTime, i + 1)
       IN [slots |-> (IF ~conflictCheck.hasConflicts THEN << slot >> ELSE << >>)
                      \o rest.slots,
           calls |-> conflictCheck.calls \o rest.calls]

InWorkingHours(workingHours, slot) ==
  Hour(slot) >= workingHours.start /\ Hour(slot) <= workingHours.end

\* The second half of smartSchedule: the automatic search.
SmartSearch(evs, env, t, req, calls) ==
  LET searchStart == IF req.timeRange # None THEN The(req.timeRange).earliest ELSE t
      searchEnd == IF req.timeRange # None THEN The(req.timeRange).latest
                   ELSE t + SearchDays * MinutesPerDay
      freeSlots == FindFreeTime(evs, env, req.duration, searchStart, searchEnd)
      inHours == IF req.workingHours # None
                 THEN LET Keep(slot) == InWorkingHours(The(req.workingHours), slot)
                      IN SeqFilter(freeSlots, Keep)
                 ELSE freeSlots
      buffered == IF req.bufferTime > 0
                  THEN FilterSlotsWithBuffer(evs, env, inHours, req.duration,
                                             req.bufferTime, 1)
                  ELSE [slots |-> inHours, calls |-> << >>]
      filteredSlots == buffered.slots
      calls2 == calls \o << Call("freebusy.query", env.fb) >> \o buffered.calls
  IN IF Len(filteredSlots) > 0
     THEN LET optimalTime == filteredSlots[1]
              cr == CreateEvent(evs, env, optimalTime, optimalTime + req.duration)
          IN IF cr.threw
             THEN [success |-> FALSE, event |-> None, alternativeTimes |-> << >>,
                   start |-> optimalTime, viaSearch |-> TRUE,
                   calls |-> calls2 \o cr.calls, evs |-> evs]
             ELSE [success |-> TRUE, event |-> cr.event,
                   alternativeTimes |-> SubSeq(filteredSlots, 2,
                                               Min2(Len(filteredSlots), 1 + MaxAlternatives)),
                   start |-> optimalTime, viaSearch |-> TRUE,
                   calls |-> calls2 \o cr.calls, evs |-> cr.evs]
     ELSE [success |-> FALSE, event |-> None, alternativeTimes |-> Head5(freeSlots),
           start |-> NoTime, viaSearch |-> TRUE, calls |-> calls2, evs |-> evs]

RECURSIVE SmartPreferred(_, _, _, _, _, _)
\* The loop of smartSchedule over preferredTimes, from position i.
SmartPreferred(evs, env, t, req, i, calls) ==
  IF i > Len(req.preferredTimes) THEN SmartSearch(evs, env, t, req, calls)
  ELSE LET preferredTime == req.preferredTimes[i]
           endTime == preferredTime + req.duration
           conflictCheck == CheckConflicts(evs, env, preferredTime, endTime)
       IN IF ~conflictCheck.hasConflicts
          THEN LET cr == CreateEvent(evs, env, preferredTime, endTime)
               IN [success |-> ~cr.threw, event |-> cr.event,
                   alternativeTimes |-> << >>,
                   start |-> preferredTime, viaSearch |-> FALSE,
                   calls |-> calls \o conflictCheck.calls \o cr.calls,
                   evs |-> cr.evs]
          ELSE SmartPreferred(evs, env, t, req, i + 1, calls \o conflictCheck.calls)

\* Mutant of SmartSchedule: the automatic search runs without trying the
\* preferred times.
SmartSchedule_SearchFirst(evs, env, t, req) == SmartSearch(evs, env, t, req, << >>)

SmartSchedule(evs, env, t, req) == SmartPreferred(evs, env, t, req, 1, << >>)

\* rescheduleEvent(userId, eventId, newStartTime, checkConflicts)
RescheduleEvent(evs, env, eventId, newStartTime, checkConflicts) ==
  LET existingEvents == GetEvents(evs, env.lookup, NoTime, NoTime)
      found == { e \in existingEvents : e.id = eventId }
      lookupCall == << Call("events.list", env.lookup) >>
  IN IF found = {}
     THEN [success |-> FALSE, event |-> None, conflicts |-> {}, reason |-> "not_found",
           calls |-> lookupCall, evs |-> evs]
     ELSE
       LET existingEvent == CHOOSE e \in found : TRUE
           originalDuration == existingEvent.end - existingEvent.start
           newEndTime == newStartTime + originalDuration
           conflictCheck == CheckConflicts(evs, env, newStartTime, newEndTime)
       IN IF checkConflicts /\ conflictCheck.hasConflicts
          THEN [success |-> FALSE, event |-> None, conflicts |-> conflictCheck.conflicts,
                reason |-> "conflict",
                calls |-> lookupCall \o conflictCheck.calls, evs |-> evs]
          ELSE
            LET up == UpdateEvent(evs, env, eventId, newStartTime, newEndTime)
                calls2 == lookupCall
                          \o (IF checkConflicts THEN conflictCheck.calls ELSE << >>)
                          \o up.calls
                updatedEvents == GetEvents(up.evs, env.lookup, NoTime, NoTime)
                updated == { e \in updatedEvents : e.id = eventId }
            IN IF up.ok
               THEN [success |-> TRUE,
                     event |-> updated,
                     conflicts |-> {}, reason |-> "ok",
                     calls |-> calls2 \o << Call("events.list", env.lookup) >>,
                     evs |-> up.evs]
               ELSE [success |-> FALSE, event |-> None, conflicts |-> {},
                     reason |-> "update_failed", calls |-> calls2, evs |-> evs]

\* deleteEvent: a failed delete is swallowed as false.
DeleteEvent(evs, ok, eventId) ==
  IF ok THEN { e \in evs : e.id # eventId } ELSE evs

\* ------------------------------------------- the scheduling engine alone
\* Requests made of the calendar service directly.  A request is one action;
\* `last` holds the request and its result until the caller has taken it.
Idle == [op |-> "idle"]

PrefStarts == { DayStart, DayStart + SlotStep }
PreferredLists ==
  { << >> } \cup { << a >> : a \in PrefStarts }
            \cup { << p[1], p[2] >> : p \in { q \in PrefStarts \X PrefStarts : q[1] # q[2] } }
            \cup { << DayStart + 2 * SlotStep, DayStart >> }

\* A range that opens in the evening and closes the next day at noon.
EveningRange == [earliest |-> 18 * 60, latest |-> MinutesPerDay + 12 * 60]

TimeRanges ==
  { None, Some([earliest |-> DayStart, latest |-> DayStart + 4 * SlotStep]),
    Some(EveningRange) }
WorkingHoursOpts == { None, Some([start |-> 11, end |-> 17]) }
BufferTimes == { 0, 15 }

\* The requests either constrain the search (a time range, working hours and a
\* buffer, as the chat route passes them together) or leave the working hours
\* and the buffer out.
SmartRequests ==
  { r \in [duration : Durations, preferredTimes : PreferredLists,
            timeRange : TimeRanges, workingHours : WorkingHoursOpts,
            bufferTime : BufferTimes] :
      /\ (r.workingHours = None) <=> (r.bufferTime = 0)
      /\ (r.workingHours # None) => (r.timeRange # None)
      /\ (r.timeRange = Some(EveningRange)) =>
           (r.workingHours # None /\ r.preferredTimes = << >>) }

ReadEnvs == { e \in EnvsOneFailure : e.lookup /\ e.patch /\ e.insert = "ok" }
InsertEnvs == { e \in EnvsOneFailure : e.lookup /\ e.patch }
PatchEnvs == { e \in EnvsOneFailure : e.insert = "ok" }

Init ==
  /\ events = {}
  /\ now \in NowValues
  /\ last = Idle

SchedCreate ==
  /\ last = Idle
  /\ Cardinality(events) < MaxEvents
  /\ \E start \in Starts, d \in Durations :
       LET r == CreateEvent(events, EnvOk, start, start + d)
       IN /\ events' = r.evs
          /\ last' = [op |-> "createEvent", pre |-> events, res |-> r]
  /\ UNCHANGED now

SchedDelete ==
  /\ last = Idle
  /\ \E e \in events :
       /\ events' = DeleteEvent(events, TRUE, e.id)
       /\ last' = [op |-> "deleteEvent", pre |-> events, eventId |-> e.id]
  /\ UNCHANGED now

SchedCheckConflicts ==
  /\ last = Idle
  /\ \E start \in Starts, d \in Durations, env \in ReadEnvs :
       last' = [op |-> "checkConflicts", pre |-> events, env |-> env,
                startTime |-> start, endTime |-> start + d,
                res |-> CheckConflicts(events, env, start, start + d)]
  /\ UNCHANGED <<events, now>>

SchedSmartSchedule ==
  /\ last = Idle
  /\ \E req \in SmartRequests, env \in InsertEnvs :
       LET r == SmartSchedule(events, env, now, req)
       IN /\ Cardinality(r.evs) <= MaxEvents
          /\ events' = r.evs
          /\ last' = [op |-> "smartSchedule", pre |-> events, env |-> env,
                      req |-> req, res |-> r]
  /\ UNCHANGED now

SchedReschedule ==
  /\ last = Idle
  /\ \E eventId \in 1..MaxEvents, newStart \in Starts, check \in BOOLEAN,
        env \in PatchEnvs :
       LET r == RescheduleEvent(events, env, eventId, newStart, check)
       IN /\ events' = r.evs
          /\ last' = [op |-> "rescheduleEvent", pre |-> events, env |-> env,
                      eventId |-> eventId, newStartTime |-> newStart,
                      checkConflicts |-> check, res |-> r]
  /\ UNCHANGED now

\* findFreeTime(userId, duration, timeMin, timeMax) asked directly: an hour
\* in the morning, or a window long enough to hold more than ten starts.
FreeDurations == {30, 45}
FreeWindows ==
  { [timeMin |-> 9 * 60, timeMax |-> 10 * 60],
    [timeMin |-> DayStart, timeMax |-> DayStart + 12 * SlotStep] }

SchedFindFreeTime ==
  /\ last = Idle
  /\ \E d \in FreeDurations, w \in FreeWindows, fb \in BOOLEAN :
       last' = [op |-> "findFreeTime", pre |-> events, fb |-> fb, duration |-> d,
                timeMin |-> w.timeMin, timeMax |-> w.timeMax,
                res |-> FindFreeTime(events, [EnvOk EXCEPT !.fb = fb], d,
                                     w.timeMin, w.timeMax)]
  /\ UNCHANGED <<events, now>>

Return ==
  /\ last # Idle
  /\ last' = Idle
  /\ UNCHANGED <<events, now>>

\* Three clients of the service: one that queries conflicts, one that
\* schedules, one that reschedules; each also creates and deletes events.
ConflictsNext ==
  \/ SchedCreate
  \/ SchedDelete
  \/ SchedCheckConflicts
  \/ Return

SmartNext ==
  \/ SchedCreate
  \/ SchedDelete
  \/ SchedSmartSchedule
  \/ Return

ReschedNext ==
  \/ SchedCreate
  \/ SchedDelete
  \/ SchedReschedule
  \/ Return

FreeNext ==
  \/ SchedCreate
  \/ SchedDelete
  \/ SchedFindFreeTime
  \/ Return

SpecConflicts == Init /\ [][ConflictsNext]_vars

SpecFree == Init /\ [][FreeNext]_vars

SpecSmart == Init /\ [][SmartNext]_vars

SpecResched == Init /\ [][ReschedNext]_vars

\* ------------------------------------------------ scheduling-engine claims
CountCalls(calls, op) == Cardinality({ i \in 1..Len(calls) : calls[i].op = op })

OverlappingIn(evs, startTime, endTime) ==
  { e \in evs : startTime < e.end /\ endTime > e.start }

\* C6: checkConflicts(start, end) reports hasConflicts = true exactly when
\* some existing event has start < existingEnd and end > existingStart, and
\* the conflicts it returns are exactly the overlapping events.
C6_ConflictsExactlyOverlaps ==
  last.op = "checkConflicts" =>
    LET overlapping == OverlappingIn(last.pre, last.startTime, last.endTime)
    IN /\ last.res.hasConflicts <=> (overlapping # {})
       /\ last.res.conflicts = overlapping

\* C7: smartSchedule tries preferredTimes in the given order before the
\* automatic search.  When the first preferred time is conflict-free, the one
\* write it issues is the insert of [preferred, preferred + duration], no
\* findFreeTime (freebusy) call is made, and the event is stored at exactly
\* that time unless the insert itself throws (then nothing is stored and
\* success is false).  A later preferred time or the automatic search is
\* used only when every earlier preferred time overlaps an existing event.
C7_PreferredTimesFirst ==
  last.op = "smartSchedule" =>
    LET req == last.req
        res == last.res
        p == req.preferredTimes
        Free(i) == OverlappingIn(last.pre, p[i], p[i] + req.duration) = {}
    IN /\ (Len(p) >= 1 /\ Free(1)) =>
            /\ ~res.viaSearch
            /\ res.start = p[1]
            /\ CountCalls(res.calls, "freebusy.query") = 0
            /\ CountCalls(res.calls, "events.insert") = 1
            /\ IF last.env.insert = "throw"
               THEN ~res.success /\ events = last.pre
               ELSE /\ res.success
                    /\ \E e \in events \ last.pre :
                         /\ e.start = p[1]
                         /\ e.end = p[1] + req.duration
                         /\ events = last.pre \cup {e}
       /\ ~res.viaSearch =>
            \E i \in 1..Len(p) : res.start = p[i] /\ \A j \in 1..(i-1) : ~Free(j)
       /\ res.viaSearch => \A j \in 1..Len(p) : ~Free(j)

C7_Witness ==
  /\ last.op = "smartSchedule"
  /\ Len(last.req.preferredTimes) = 2
  /\ last.pre # {}
  /\ OverlappingIn(last.pre, last.req.preferredTimes[1],
                   last.req.preferredTimes[1] + last.req.duration) = {}
  /\ last.res.success
  /\ \E e \in events \ last.pre : e.start = last.req.preferredTimes[1]

\* The event a reschedule request names, before and after the request.
Target(evs) == { e \in evs : e.id = last.eventId }

OthersOverlapping ==
  LET old == The(Target(last.pre))
  IN { e \in OverlappingIn(last.pre, last.newStartTime,
                           last.newStartTime + (old.end - old.start)) :
         e.id # last.eventId }

\* C8: rescheduleEvent with conflict checking enabled, asked for a window
\* that conflicts with another event, returns success = false with the
\* conflicting events and leaves the event store unchanged.
C8_ConflictLeavesStoreUnchanged ==
  ( /\ last.op = "rescheduleEvent"
    /\ last.checkConflicts
    /\ Target(last.pre) # {}
    /\ OthersOverlapping # {} ) =>
      /\ ~last.res.success
      /\ OthersOverlapping \subseteq last.res.conflicts
      /\ events = last.pre

\* C9: after a successful rescheduleEvent the event starts at the new start
\* time and is exactly as long as it was before the call.
C9_ReschedulePreservesDuration ==
  (last.op = "rescheduleEvent" /\ last.res.success) =>
    /\ Target(last.pre) # {}
    /\ Target(events) # {}
    /\ LET old == The(Target(last.pre))
           new == The(Target(events))
       IN /\ new.start = last.newStartTime
          /\ new.end - new.start = old.end - old.start

C9_Witness ==
  /\ last.op = "rescheduleEvent"
  /\ last.res.success
  /\ Target(last.pre) # {}
  /\ LET old == The(Target(last.pre))
     IN old.end - old.start = 45 /\ old.start # last.newStartTime

\* C10: the conflict check of rescheduleEvent skips the event's own current
\* slot: when no other event overlaps the new window, the reschedule is not
\* refused as a conflict and the update is committed.
C10_OwnSlotIsNoConflict ==
  ( /\ last.op = "rescheduleEvent"
    /\ last.checkConflicts
    /\ last.env = EnvOk
    /\ Target(last.pre) # {}
    /\ The(Target(last.pre)).start # last.newStartTime
    /\ OthersOverlapping = {} ) =>
      /\ last.res.reason # "conflict"
      /\ last.res.success
      /\ The(Target(events)).start = last.newStartTime

\* ---------------------------------------------------------------- intents
\* An intent tag is the sequence of its characters, so that the dispatchers'
\* actionType.includes(...) tests are computed on the text of the tag.
Includes(s, p) ==
  \E i \in 1..(Len(s) - Len(p) + 1) : SubSeq(s, i, i + Len(p) - 1) = p

\* The substrings the dispatchers look for.
W_email == << "e", "m", "a", "i", "l" >>
W_send_message == << "s", "e", "n", "d", "_", "m", "e", "s", "s", "a", "g", "e" >>
W_sms == << "s", "m", "s" >>
W_text == << "t", "e", "x", "t" >>
W_check_schedule == << "c", "h", "e", "c", "k", "_", "s", "c", "h", "e", "d", "u", "l", "e" >>
W_check_availability == << "c", "h", "e", "c", "k", "_", "a", "v", "a", "i", "l", "a", "b", "i", "l", "i", "t", "y" >>
W_calendar == << "c", "a", "l", "e", "n", "d", "a", "r" >>
W_schedule == << "s", "c", "h", "e", "d", "u", "l", "e" >>
W_meeting == << "m", "e", "e", "t", "i", "n", "g" >>
W_call == << "c", "a", "l", "l" >>
W_phone == << "p", "h", "o", "n", "e" >>
W_reminder == << "r", "e", "m", "i", "n", "d", "e", "r" >>
W_remind == << "r", "e", "m", "i", "n", "d" >>
W_reschedule == << "r", "e", "s", "c", "h", "e", "d", "u", "l", "e" >>
W_move == << "m", "o", "v", "e" >>
W_change__time == << "c", "h", "a", "n", "g", "e", " ", "t", "i", "m", "e" >>
W_check__conflicts == << "c", "h", "e", "c", "k", " ", "c", "o", "n", "f", "l", "i", "c", "t", "s" >>
W_check__availability == << "c", "h", "e", "c", "k", " ", "a", "v", "a", "i", "l", "a", "b", "i", "l", "i", "t", "y" >>
W_find__time == << "f", "i", "n", "d", " ", "t", "i", "m", "e" >>
W_optimal__time == << "o", "p", "t", "i", "m", "a", "l", " ", "t", "i", "m", "e" >>
W_appointment == << "a", "p", "p", "o", "i", "n", "t", "m", "e", "n", "t" >>
W_event == << "e", "v", "e", "n", "t" >>
W_availability == << "a", "v", "a", "i", "l", "a", "b", "i", "l", "i", "t", "y" >>
W_free == << "f", "r", "e", "e" >>
W_busy == << "b", "u", "s", "y" >>
W_morning == << "m", "o", "r", "n", "i", "n", "g" >>
W_afternoon == << "a", "f", "t", "e", "r", "n", "o", "o", "n" >>

\* The intent tags: the classifier's ten, the tags of the fallback classifier's
\* prompt, and the fixed tag of the SMS flow's low-confidence path.
T_send_email == << "s", "e", "n", "d", "_", "e", "m", "a", "i", "l" >>
T_set_reminder == << "s", "e", "t", "_", "r", "e", "m", "i", "n", "d", "e", "r" >>
T_create_event == << "c", "r", "e", "a", "t", "e", "_", "e", "v", "e", "n", "t" >>
T_reschedule == W_reschedule
T_check_schedule == W_check_schedule
T_check_availability == W_check_availability
T_check_conflicts == << "c", "h", "e", "c", "k", "_", "c", "o", "n", "f", "l", "i", "c", "t", "s" >>
T_find_time == << "f", "i", "n", "d", "_", "t", "i", "m", "e" >>
T_send_sms == << "s", "e", "n", "d", "_", "s", "m", "s" >>
T_general_chat == << "g", "e", "n", "e", "r", "a", "l", "_", "c", "h", "a", "t" >>
T_make_call == << "m", "a", "k", "e", "_", "c", "a", "l", "l" >>
T_general_request == << "g", "e", "n", "e", "r", "a", "l", "_", "r", "e", "q", "u", "e", "s", "t" >>
T_find__time == W_find__time
T_move == W_move
T_check__conflicts == W_check__conflicts

\* The branch each dispatcher's if-chain selects for a tag (the tags are
\* lower case already, so toLowerCase changes nothing).
ChatBranch(tag) ==
  IF Includes(tag, W_email) \/ Includes(tag, W_send_message) THEN "email"
  ELSE IF Includes(tag, W_sms) \/ Includes(tag, W_text) THEN "sms"
  ELSE IF Includes(tag, W_check_schedule) \/ tag = T_check_schedule THEN "check_schedule"
  ELSE IF Includes(tag, W_check_availability) \/ tag = T_check_availability
       THEN "check_availability"
  ELSE IF Includes(tag, W_calendar) \/ Includes(tag, W_schedule) \/ Includes(tag, W_meeting)
       THEN "create"
  ELSE IF Includes(tag, W_call) \/ Includes(tag, W_phone) THEN "call"
  ELSE IF Includes(tag, W_reminder) \/ Includes(tag, W_remind) THEN "reminder"
  ELSE IF Includes(tag, W_reschedule) \/ Includes(tag, W_move) \/ Includes(tag, W_change__time)
       THEN "reschedule"
  ELSE IF Includes(tag, W_check__conflicts) \/ Includes(tag, W_check__availability)
       THEN "check_conflicts"
  ELSE IF Includes(tag, W_find__time) \/ Includes(tag, W_optimal__time) THEN "find_time"
  ELSE "unmatched"

VoiceBranch(tag) ==
  IF Includes(tag, W_email) \/ Includes(tag, W_send_message) THEN "email"
  ELSE IF Includes(tag, W_sms) \/ Includes(tag, W_text) THEN "sms"
  ELSE IF Includes(tag, W_calendar) \/ Includes(tag, W_schedule) \/ Includes(tag, W_meeting)
       THEN "create"
  ELSE IF Includes(tag, W_call) \/ Includes(tag, W_phone) THEN "call"
  ELSE IF Includes(tag, W_reminder) \/ Includes(tag, W_remind) THEN "reminder"
  ELSE IF Includes(tag, W_check_schedule) \/ tag = T_check_schedule THEN "check_schedule"
  ELSE IF Includes(tag, W_check_availability) \/ tag = T_check_availability
       THEN "check_availability"
  ELSE "unmatched"

\* The SMS dispatcher is a sequence of ifs that each return.
SmsBranch(tag) ==
  IF Includes(tag, W_email) \/ Includes(tag, W_send_message) THEN "email"
  ELSE IF Includes(tag, W_schedule) \/ Includes(tag, W_meeting)
          \/ Includes(tag, W_appointment) \/ Includes(tag, W_event) THEN "create"
  ELSE IF Includes(tag, W_availability) \/ Includes(tag, W_free) \/ Includes(tag, W_busy)
       THEN "check_availability"
  ELSE IF Includes(tag, W_reminder) \/ Includes(tag, W_remind) THEN "reminder"
  ELSE "unmatched"

\* ---------------------------------------------------------------- requests
\* A time parameter is carried as what parseNaturalTime makes of its text at
\* the time of the request: Absent when the parameter is not given, NoTime
\* when the text does not parse, otherwise the instant (minutes).
Absent == 0 - 2
PastInstant == 8 * 60
FutureInstants == { DayStart, DayStart + SlotStep }
TimeInputs == { Absent, NoTime, PastInstant } \cup FutureInstants

\* The parameters the dispatchers probe: a recipient (to / recipient / phone),
\* a time (startTime / time / when / newTime), an event id (0: none), a day
\* word ("other": not a day the schedule branch knows), and checkConflicts
\* === false ("direct").
DefaultParams ==
  [to |-> FALSE, time |-> Absent, eventId |-> 0, day |-> "today", direct |-> FALSE]

ParamsWithTime == { [DefaultParams EXCEPT !.time = t] : t \in TimeInputs }

\* parseIntentLightweight: every rule returns its own tag, its own fixed
\* confidence (in hundredths) and needsAI = false; no rule gives general_chat
\* at 0.3 with needsAI = true.
Lw(tag, confidence, params) ==
  [tag |-> tag, confidence |-> confidence, needsAI |-> FALSE, params |-> params]

LightweightResults ==
  { Lw(T_send_email, 95, [DefaultParams EXCEPT !.to = TRUE]) }
  \cup { Lw(T_set_reminder, 90, p) : p \in ParamsWithTime }
  \cup { Lw(T_create_event, 85, p) : p \in ParamsWithTime }
  \cup { Lw(T_reschedule, 90, [p EXCEPT !.eventId = id]) :
           p \in ParamsWithTime, id \in 0..1 }
  \cup { Lw(T_check_schedule, 90, [DefaultParams EXCEPT !.day = d, !.time = t]) :
           d \in {"today", "other"}, t \in {NoTime, DayStart} }
  \cup { Lw(T_check_availability, 90, p) : p \in ParamsWithTime \ {DefaultParams} }
  \cup { Lw(T_check_conflicts, 85, p) : p \in ParamsWithTime }
  \cup { Lw(T_find_time, 80, DefaultParams) }
  \cup { Lw(T_send_sms, 90, [DefaultParams EXCEPT !.to = TRUE]) }
  \cup { [tag |-> T_general_chat, confidence |-> 30, needsAI |-> TRUE,
          params |-> DefaultParams] }

\* An IntentResult as the dispatcher receives it; action says whether the
\* action field is set.
Intent(tag, confidence, action, params) ==
  [tag |-> tag, confidence |-> confidence, action |-> action, params |-> params]

\* aiService.parseIntent: general_chat at 0.5 when the call or the JSON parse
\* fails, otherwise whatever JSON the model answered with: JSON.parse's value
\* is returned unchecked, so it may be an object with no intent field (its
\* tag is T_undefined, and a missing confidence compares as 0) or null.
AiFailed == Intent(T_general_chat, 50, FALSE, DefaultParams)

T_undefined == << >>

AiNull ==
  [tag |-> T_undefined, confidence |-> 0, action |-> FALSE, params |-> DefaultParams,
   null |-> TRUE]

AiResults ==
  { AiFailed, Intent(T_general_chat, 90, FALSE, DefaultParams) }
  \cup { Intent(T_send_email, 90, FALSE, [DefaultParams EXCEPT !.to = to]) : to \in BOOLEAN }
  \cup { Intent(T_create_event, 90, FALSE,
                [DefaultParams EXCEPT !.time = DayStart, !.direct = d]) : d \in BOOLEAN }
  \cup { Intent(T_create_event, 60, a, [DefaultParams EXCEPT !.time = DayStart]) :
           a \in BOOLEAN }
  \cup { Intent(T_make_call, 90, FALSE, [DefaultParams EXCEPT !.to = TRUE]),
         Intent(T_find__time, 90, FALSE, DefaultParams),
         Intent(T_move, 90, FALSE,
                [DefaultParams EXCEPT !.eventId = 1, !.time = DayStart + SlotStep]),
         Intent(T_move, 90, FALSE, [DefaultParams EXCEPT !.time = DayStart + SlotStep]),
         Intent(T_check__conflicts, 90, FALSE, [DefaultParams EXCEPT !.time = DayStart]) }
  \cup { Intent(T_undefined, 0, FALSE, DefaultParams),
         Intent(T_undefined, 90, FALSE, DefaultParams),
         AiNull }

\* userAuthService.getUserPermissions: throws (store not initialised), returns
\* null (the query failed), or returns the flags; sms and calls are the same
\* environment test.
NoPermissions(status) ==
  [status |-> status, email |-> FALSE, calendar |-> FALSE, sms |-> FALSE, calls |-> FALSE]

PermOutcomes ==
  { NoPermissions("throw"), NoPermissions("null") }
  \cup { [status |-> "ok", email |-> e, calendar |-> c, sms |-> w, calls |-> w] :
           e \in BOOLEAN, c \in BOOLEAN, w \in BOOLEAN }

AllGranted ==
  [status |-> "ok", email |-> TRUE, calendar |-> TRUE, sms |-> TRUE, calls |-> TRUE]

\* What the collaborators do in one request: the permission store, the
\* calendar calls, and the transport (send: "ok", "false" or "throw").  A call
\* fails only in a request whose permissions are all granted, and at most one
\* kind of call fails.
ReqEnvs ==
  { e \in [perms : PermOutcomes, cal : EnvsOneFailure, send : {"ok", "false", "throw"}] :
      /\ (e.perms # AllGranted) => (e.cal = EnvOk /\ e.send = "ok")
      /\ (e.cal = EnvOk \/ e.send = "ok") }

\* ------------------------------------------------------- findOptimalTime
\* Minute 0 of the model falls on a Monday (getDay() = 1).
FirstWeekday == 1
DayOfWeek(t) == (FirstWeekday + (t \div MinutesPerDay)) % 7

\* Array.prototype.sort by hour of day: stable, ascending for preferMorning,
\* descending for preferAfternoon.
HourBefore(a, b, descending) ==
  IF descending THEN Hour(a) > Hour(b) ELSE Hour(a) < Hour(b)

InsertByHour(sorted, x, descending) ==
  LET later == { i \in 1..Len(sorted) : HourBefore(x, sorted[i], descending) }
  IN IF later = {} THEN Append(sorted, x)
     ELSE LET k == CHOOSE i \in later : \A j \in later : i <= j
          IN SubSeq(sorted, 1, k - 1) \o << x >> \o SubSeq(sorted, k, Len(sorted))

RECURSIVE SortByHour(_, _, _)
SortByHour(slots, descending, sorted) ==
  IF slots = << >> THEN sorted
  ELSE SortByHour(Tail(slots), descending, InsertByHour(sorted, Head(slots), descending))

ApplySchedulingPreferences(slots, preferences) ==
  LET KeepHours(slot) == InWorkingHours(The(preferences.workingHours), slot)
      inHours == IF preferences.workingHours # None THEN SeqFilter(slots, KeepHours)
                 ELSE slots
      KeepDays(slot) == DayOfWeek(slot) \in The(preferences.workingDays)
      inDays == IF preferences.workingDays # None THEN SeqFilter(inHours, KeepDays)
                ELSE inHours
  IN IF preferences.preferMorning THEN SortByHour(inDays, FALSE, << >>)
     ELSE IF preferences.preferAfternoon THEN SortByHour(inDays, TRUE, << >>)
     ELSE inDays

\* findOptimalTime(userId, attendees, duration, preferences) at time t: the
\* first free slot of the next two weeks that passes the preferences.
FindOptimalTime(evs, env, t, duration, preferences) ==
  LET found == FindFreeTime(evs, env, duration, t, t + OptimalDays * MinutesPerDay)
      freeSlots == ApplySchedulingPreferences(found, preferences)
  IN [success |-> Len(freeSlots) > 0,
      optimalTime |-> IF Len(freeSlots) > 0 THEN Some(freeSlots[1]) ELSE None,
      alternatives |-> SubSeq(freeSlots, 2, Min2(Len(freeSlots), 5)),
      calls |-> << Call("freebusy.query", env.fb) >>]

\* findOptimalTime asked directly.  The preferences carry working hours,
\* working days, a buffer time and at most one of the two sort wishes.
OptimalPreferences ==
  { p \in [workingHours : WorkingHoursOpts,
            workingDays : {None, Some(1..5)},
            bufferTime : {0, 15},
            preferMorning : BOOLEAN, preferAfternoon : BOOLEAN] :
      ~(p.preferMorning /\ p.preferAfternoon) }

SchedFindOptimalTime ==
  /\ last = Idle
  /\ \E d \in Durations, p \in OptimalPreferences, fb \in BOOLEAN :
       last' = [op |-> "findOptimalTime", pre |-> events, fb |-> fb, duration |-> d,
                preferences |-> p,
                res |-> FindOptimalTime(events, [EnvOk EXCEPT !.fb = fb], now, d, p)]
  /\ UNCHANGED <<events, now>>

OptimalNext ==
  \/ SchedCreate
  \/ SchedDelete
  \/ SchedFindOptimalTime
  \/ Return

SpecOptimal == Init /\ [][OptimalNext]_vars

\* ------------------------------------------------------------ dispatchers
\* Values the dispatchers fix.
DefaultDuration == 60
ReminderLength == 15
ChatRangeDays == 7
ChatBufferTime == 15
OfficeHours == [start |-> 9, end |-> 17]

StartOfDay(t) == (t \div MinutesPerDay) * MinutesPerDay
NextHour(t) == ((t \div 60) + 1) * 60

\* What executeAction returns: the leading marker of the string ("ok" for the
\* check mark, "err" for the cross, "cal", "warn", "clock", "think" for the
\* calendar, warning, alarm-clock and thinking-face emoji), what the string
\* says, the branch taken, the calls made and the event store afterwards.
\* What it says is one of: "connect" (connect the account), "config" (check
\* the Twilio configuration), "ask_recipient", "ask_time", "ask_event" (please
\* specify the missing field),
\* "unparsed" (the time text was not understood), "past" (the time is in the
\* past), "ack" (understood, nothing done), "stub" (feature coming soon),
\* "failed" (the outer catch), "result" (the rendering of what a service
\* returned).
Says(marker, msg, branch, calls, evs) ==
  [threw |-> FALSE, marker |-> marker, msg |-> msg, branch |-> branch,
   calls |-> calls, evs |-> evs]

Result(marker, branch, calls, evs) == Says(marker, "result", branch, calls, evs)

Thrown(branch, calls, evs) ==
  [threw |-> TRUE, marker |-> "none", msg |-> "none", branch |-> branch,
   calls |-> calls, evs |-> evs]

\* How the results of the calendar service are rendered.
Outcome(success, branch, calls, evs) ==
  Result(IF success THEN "ok" ELSE "err", branch, calls, evs)

FromSmartSchedule(r, calls) ==
  Outcome(r.success /\ r.event # None, "create", calls \o r.calls, r.evs)

FromCreateEvent(cr, branch, calls) ==
  Outcome(~cr.threw /\ cr.event # None, branch, calls \o cr.calls, cr.evs)

FromReschedule(r, calls) ==
  Outcome(r.success /\ r.event # None, "reschedule", calls \o r.calls, r.evs)

FromCheckConflicts(r, busyMarker, branch, calls, evs) ==
  Result(IF ~r.hasConflicts THEN "ok" ELSE busyMarker, branch, calls \o r.calls, evs)

FromFindOptimalTime(r, calls, evs) ==
  Outcome(r.success /\ r.optimalTime # None, "find_time", calls \o r.calls, evs)

\* The three transport branches: permission, recipient, send.  A throwing
\* send is caught by the branch's own try.
TransportBranch(branch, op, permitted, p, env, evs, calls) ==
  IF ~permitted
  THEN Says("err", IF branch = "email" THEN "connect" ELSE "config", branch, calls, evs)
  ELSE IF ~p.to THEN Says("err", "ask_recipient", branch, calls, evs)
  ELSE Result(IF env.send = "ok" THEN "ok" ELSE "err", branch,
              calls \o << Call(op, env.send = "ok") >>, evs)

\* The time checks of the forward-looking branches: given, parseable, and
\* after now when the branch requires it.
TimeRejected(time, t, futureOnly) ==
  time = Absent \/ time = NoTime \/ (futureOnly /\ time <= t)

\* What the rejection says.
TimeMessage(time) ==
  IF time = Absent THEN "ask_time" ELSE IF time = NoTime THEN "unparsed" ELSE "past"

\* Event creation of the chat and voice dispatchers.
CreateBranch(p, env, evs, t, calls) ==
  IF ~env.perms.calendar THEN Says("err", "connect", "create", calls, evs)
  ELSE IF TimeRejected(p.time, t, TRUE) THEN Says("err", TimeMessage(p.time), "create", calls, evs)
  ELSE IF ~p.direct
  THEN FromSmartSchedule(
         SmartSchedule(evs, env.cal, t,
           [duration |-> DefaultDuration,
            preferredTimes |-> << p.time >>,
            timeRange |-> Some([earliest |-> p.time,
                                latest |-> p.time + ChatRangeDays * MinutesPerDay]),
            workingHours |-> Some(OfficeHours),
            bufferTime |-> ChatBufferTime]),
         calls)
  ELSE FromCreateEvent(CreateEvent(evs, env.cal, p.time, p.time + DefaultDuration),
                       "create", calls)

ReminderBranch(p, env, evs, t, calls) ==
  IF ~env.perms.calendar THEN Says("err", "connect", "reminder", calls, evs)
  ELSE IF TimeRejected(p.time, t, TRUE) THEN Says("err", TimeMessage(p.time), "reminder", calls, evs)
  ELSE FromCreateEvent(CreateEvent(evs, env.cal, p.time, p.time + ReminderLength),
                       "reminder", calls)

RescheduleBranch(p, env, evs, t, calls) ==
  IF ~env.perms.calendar THEN Says("err", "connect", "reschedule", calls, evs)
  ELSE IF p.eventId = 0 THEN Says("err", "ask_event", "reschedule", calls, evs)
  ELSE IF TimeRejected(p.time, t, TRUE) THEN Says("err", TimeMessage(p.time), "reschedule", calls, evs)
  ELSE FromReschedule(RescheduleEvent(evs, env.cal, p.eventId, p.time, TRUE), calls)

\* The day's events: the calendar marker whether or not there are any.
CheckScheduleBranch(p, env, evs, t, calls) ==
  IF ~env.perms.calendar THEN Says("err", "connect", "check_schedule", calls, evs)
  ELSE IF p.day = "other" THEN Says("err", "unparsed", "check_schedule", calls, evs)
  ELSE Result("cal", "check_schedule",
              calls \o << Call("events.list", env.cal.list) >>, evs)

\* check_availability of the chat dispatcher reads the events of the hour.
ChatAvailabilityBranch(p, env, evs, t, calls) ==
  IF ~env.perms.calendar THEN Says("err", "connect", "check_availability", calls, evs)
  ELSE IF TimeRejected(p.time, t, FALSE) THEN Says("err", TimeMessage(p.time), "check_availability", calls, evs)
  ELSE Outcome(GetEvents(evs, env.cal.list, p.time, p.time + DefaultDuration) = {},
               "check_availability",
               calls \o << Call("events.list", env.cal.list) >>, evs)

\* check_availability of the voice dispatcher asks checkConflicts.
VoiceAvailabilityBranch(p, env, evs, t, calls) ==
  IF ~env.perms.calendar THEN Says("err", "connect", "check_availability", calls, evs)
  ELSE IF TimeRejected(p.time, t, FALSE) THEN Says("err", TimeMessage(p.time), "check_availability", calls, evs)
  ELSE FromCheckConflicts(CheckConflicts(evs, env.cal, p.time, p.time + DefaultDuration),
                          "err", "check_availability", calls, evs)

CheckConflictsBranch(p, env, evs, t, calls) ==
  IF ~env.perms.calendar THEN Says("err", "connect", "check_conflicts", calls, evs)
  ELSE IF TimeRejected(p.time, t, FALSE) THEN Says("err", TimeMessage(p.time), "check_conflicts", calls, evs)
  ELSE FromCheckConflicts(CheckConflicts(evs, env.cal, p.time, p.time + DefaultDuration),
                          "warn", "check_conflicts", calls, evs)

FindTimeBranch(tag, env, evs, t, calls) ==
  IF ~env.perms.calendar THEN Says("err", "connect", "find_time", calls, evs)
  ELSE FromFindOptimalTime(
         FindOptimalTime(evs, env.cal, t, DefaultDuration,
           [workingHours |-> Some(OfficeHours),
            workingDays |-> Some(1..5),
            bufferTime |-> ChatBufferTime,
            preferMorning |-> Includes(tag, W_morning),
            preferAfternoon |-> Includes(tag, W_afternoon)]),
         calls, evs)

PermissionCall(env) == << Call("getUserPermissions", env.perms.status = "ok") >>

\* The body of the chat executeAction inside its outer try.
\* The branch bodies of the chat dispatcher.
ChatSelected(branch, tag, p, env, evs, t, calls) ==
  CASE branch = "email" ->
         TransportBranch("email", "sendEmail", env.perms.email, p, env, evs, calls)
    [] branch = "sms" ->
         TransportBranch("sms", "sendSMS", env.perms.sms, p, env, evs, calls)
    [] branch = "check_schedule" -> CheckScheduleBranch(p, env, evs, t, calls)
    [] branch = "check_availability" -> ChatAvailabilityBranch(p, env, evs, t, calls)
    [] branch = "create" -> CreateBranch(p, env, evs, t, calls)
    [] branch = "call" ->
         TransportBranch("call", "makeCall", env.perms.calls, p, env, evs, calls)
    [] branch = "reminder" -> ReminderBranch(p, env, evs, t, calls)
    [] branch = "reschedule" -> RescheduleBranch(p, env, evs, t, calls)
    [] branch = "check_conflicts" -> CheckConflictsBranch(p, env, evs, t, calls)
    [] branch = "find_time" -> FindTimeBranch(tag, env, evs, t, calls)
    [] OTHER -> Says("ok", "ack", "unmatched", calls, evs)

ChatDispatch(intent, env, evs, t) ==
  IF intent.tag = T_undefined THEN Thrown("none", << >>, evs)
  ELSE IF env.perms.status = "throw" THEN Thrown("none", PermissionCall(env), evs)
  ELSE IF env.perms.status = "null" THEN Says("err", "connect", "none", PermissionCall(env), evs)
  ELSE ChatSelected(ChatBranch(intent.tag), intent.tag, intent.params, env, evs, t,
                  PermissionCall(env))

\* The outer catch renders whatever was thrown as an error string.
CaughtAsError(r) ==
  IF r.threw THEN Says("err", "failed", r.branch, r.calls, r.evs) ELSE r

ChatExecuteAction(intent, env, evs, t) == CaughtAsError(ChatDispatch(intent, env, evs, t))

\* The branch bodies of the voice dispatcher.
VoiceSelected(branch, tag, p, env, evs, t, calls) ==
  CASE branch = "email" ->
         TransportBranch("email", "sendEmail", env.perms.email, p, env, evs, calls)
    [] branch = "sms" ->
         TransportBranch("sms", "sendSMS", env.perms.sms, p, env, evs, calls)
    [] branch = "create" -> CreateBranch(p, env, evs, t, calls)
    [] branch = "call" ->
         TransportBranch("call", "makeCall", env.perms.calls, p, env, evs, calls)
    [] branch = "reminder" -> ReminderBranch(p, env, evs, t, calls)
    [] branch = "check_schedule" -> CheckScheduleBranch(p, env, evs, t, calls)
    [] branch = "check_availability" -> VoiceAvailabilityBranch(p, env, evs, t, calls)
    [] OTHER -> Says("ok", "ack", "unmatched", calls, evs)

VoiceDispatch(intent, env, evs, t) ==
  IF intent.tag = T_undefined THEN Thrown("none", << >>, evs)
  ELSE IF env.perms.status = "throw" THEN Thrown("none", PermissionCall(env), evs)
  ELSE IF env.perms.status = "null" THEN Says("err", "connect", "none", PermissionCall(env), evs)
  ELSE VoiceSelected(VoiceBranch(intent.tag), intent.tag, intent.params, env, evs, t,
                  PermissionCall(env))

VoiceExecuteAction(intent, env, evs, t) == CaughtAsError(VoiceDispatch(intent, env, evs, t))

\* Event creation of the SMS dispatcher: a missing time means the next full
\* hour, the time may be in the past, and a conflict is answered with a
\* suggestion instead of an event.
SmsCreateChecked(conflictResult, startTime, env, evs, t, calls) ==
  IF conflictResult.hasConflicts
  THEN Result("warn", "create",
              calls \o conflictResult.calls
                    \o FindOptimalTime(evs, env.cal, t, DefaultDuration,
                          [workingHours |-> Some(OfficeHours), workingDays |-> None,
                           bufferTime |-> ChatBufferTime,
                           preferMorning |-> FALSE, preferAfternoon |-> FALSE]).calls,
              evs)
  ELSE FromCreateEvent(CreateEvent(evs, env.cal, startTime, startTime + DefaultDuration),
                       "create", calls \o conflictResult.calls)

SmsCreateAt(startTime, env, evs, t, calls) ==
  SmsCreateChecked(CheckConflicts(evs, env.cal, startTime, startTime + DefaultDuration),
                   startTime, env, evs, t, calls)

SmsCreateBranch(p, env, evs, t, calls) ==
  IF ~env.perms.calendar THEN Says("err", "connect", "create", calls, evs)
  ELSE IF p.time = NoTime THEN Says("err", "unparsed", "create", calls, evs)
  ELSE SmsCreateAt(IF p.time = Absent THEN NextHour(t) ELSE p.time, env, evs, t, calls)

\* Availability of the SMS dispatcher: the working day of today.
SmsAvailabilityBranch(p, env, evs, t, calls) ==
  IF ~env.perms.calendar THEN Says("err", "connect", "check_availability", calls, evs)
  ELSE FromCheckConflicts(
         CheckConflicts(evs, env.cal, StartOfDay(t) + OfficeHours.start * 60,
                        StartOfDay(t) + OfficeHours.end * 60),
         "cal", "check_availability", calls, evs)

\* The branch bodies of the sms dispatcher.
SmsSelected(branch, tag, p, env, evs, t, calls) ==
  CASE branch = "email" ->
         TransportBranch("email", "sendEmail", env.perms.email, p, env, evs, calls)
    [] branch = "create" -> SmsCreateBranch(p, env, evs, t, calls)
    [] branch = "check_availability" -> SmsAvailabilityBranch(p, env, evs, t, calls)
    [] branch = "reminder" -> Says("clock", "stub", "reminder", calls, evs)
    [] OTHER -> Says("think", "ack", "unmatched", calls, evs)

SmsDispatch(intent, env, evs, t) ==
  IF intent.tag = T_undefined THEN Thrown("none", << >>, evs)
  ELSE IF env.perms.status = "throw" THEN Thrown("none", PermissionCall(env), evs)
  ELSE IF env.perms.status = "null" THEN Says("err", "connect", "none", PermissionCall(env), evs)
  ELSE SmsSelected(SmsBranch(intent.tag), intent.tag, intent.params, env, evs, t,
                  PermissionCall(env))

SmsExecuteAction(intent, env, evs, t) == CaughtAsError(SmsDispatch(intent, env, evs, t))

\* ---------------------------------------------------------- request flows
\* Confidence gates, in hundredths.
ChatThreshold == 80
ExecuteThreshold == 70
SmsThreshold == 60

NoResult(evs) == Says("none", "none", "none", << >>, evs)

QuietEnv == [perms |-> AllGranted, cal |-> EnvOk, send |-> "ok"]

\* The intent of the chat and voice handlers: the classifier's own when it is
\* confident, otherwise the fallback classifier's answer ai.
Confident(lw) == ~lw.needsAI /\ lw.confidence > ChatThreshold

GatedIntent(lw, ai) ==
  IF Confident(lw)
  THEN Intent(lw.tag, lw.confidence, lw.tag # T_general_chat, lw.params)
  ELSE ai

Executes(intent) ==
  intent.action \/ (intent.tag # T_general_chat /\ intent.confidence > ExecuteThreshold)

\* The fallback classifier is called when the classifier is not confident.
ParseCalls(lw, ai) ==
  IF Confident(lw) THEN << >> ELSE << Call("parseIntent", ai # AiFailed) >>

GenerateCalls(generates) ==
  IF generates THEN << Call("generateResponse", TRUE) >> ELSE << >>

\* What a handled request leaves behind: its inputs, the intent it arrived
\* at, whether executeAction ran and what it returned (res), every call made
\* in order, whether the voice confirmation was spoken, and what the reply is
\* made of.
Handled(op, known, lw, env, intent, executed, res, before, after, confirmed, reply, evs) ==
  [op |-> op, pre |-> evs, env |-> env, lw |-> lw, known |-> known,
   fallback |-> \E i \in 1..Len(before) : before[i].op = "parseIntent",
   intent |-> intent, executed |-> executed, res |-> res,
   calls |-> before \o res.calls \o after,
   confirmed |-> confirmed, reply |-> reply]

\* The handler's own catch: reading a field of a null intent throws, and the
\* request is answered with the status-500 apology.
Crashed(op, lw, ai, evs) ==
  Handled(op, TRUE, lw, QuietEnv, ai, FALSE, NoResult(evs), ParseCalls(lw, ai), << >>,
          FALSE, "error", evs)

\* POST of the chat route: an answer is generated for general chat only, and
\* the reply is the action result when there is one (otherwise the generated
\* answer, which is the empty string when none was generated).
ChatAnswered(lw, ai, env, intent, res, evs) ==
  Handled("chat", TRUE, lw, env, intent, Executes(intent), res,
          ParseCalls(lw, ai), GenerateCalls(intent.tag = T_general_chat),
          FALSE,
          IF Executes(intent) THEN res.marker
          ELSE IF intent.tag = T_general_chat THEN "generated" ELSE "empty",
          evs)

ChatFlow(lw, ai, env, evs, t) ==
  IF GatedIntent(lw, ai) = AiNull THEN Crashed("chat", lw, ai, evs)
  ELSE ChatAnswered(lw, ai, env, GatedIntent(lw, ai),
                    IF Executes(GatedIntent(lw, ai))
                    THEN ChatExecuteAction(GatedIntent(lw, ai), env, evs, t)
                    ELSE NoResult(evs),
                    evs)

\* POST of the voice webhook: an answer is generated for general chat and
\* for a result with a cross in it; everything else is confirmed.
VoiceGenerates(intent, res) == intent.tag = T_general_chat \/ res.marker = "err"

VoiceAnswered(lw, ai, env, intent, res, evs) ==
  Handled("voice", TRUE, lw, env, intent, Executes(intent), res,
          ParseCalls(lw, ai), GenerateCalls(VoiceGenerates(intent, res)),
          ~VoiceGenerates(intent, res),
          IF Executes(intent) THEN res.marker
          ELSE IF VoiceGenerates(intent, res) THEN "generated" ELSE "confirmation",
          evs)

VoiceFlow(lw, ai, env, evs, t) ==
  IF GatedIntent(lw, ai) = AiNull THEN Crashed("voice", lw, ai, evs)
  ELSE VoiceAnswered(lw, ai, env, GatedIntent(lw, ai),
                     IF Executes(GatedIntent(lw, ai))
                     THEN VoiceExecuteAction(GatedIntent(lw, ai), env, evs, t)
                     ELSE NoResult(evs),
                     evs)

\* POST of the SMS webhook for a registered sender: the classifier's result
\* is dispatched as it is above the gate; below it an answer is generated and
\* dropped and the fixed general_request intent is dispatched.  The result is
\* sent back by SMS.
SmsIntent(lw) ==
  IF lw.confidence > SmsThreshold THEN Intent(lw.tag, lw.confidence, FALSE, lw.params)
  ELSE Intent(T_general_request, 50, FALSE, DefaultParams)

SmsAnswered(lw, env, replyOk, res, evs) ==
  Handled("sms", TRUE, lw, env, SmsIntent(lw), TRUE, res,
          GenerateCalls(~(lw.confidence > SmsThreshold)),
          << Call("sendSMS", replyOk) >>, FALSE, res.marker, evs)

SmsFlow(lw, env, replyOk, evs, t) ==
  SmsAnswered(lw, env, replyOk, SmsExecuteAction(SmsIntent(lw), env, evs, t), evs)

\* POST of the SMS webhook for a number no account has: the registration
\* help is sent to it and nothing else happens.
SmsUnknownFlow(lw, replyOk, evs) ==
  Handled("sms", FALSE, lw, QuietEnv, Intent(lw.tag, lw.confidence, FALSE, lw.params),
          FALSE, NoResult(evs), << >>, << Call("sendSMS", replyOk) >>, FALSE, "help", evs)

Chat ==
  /\ last = Idle
  /\ \E lw \in LightweightResults :
       \E ai \in (IF Confident(lw) THEN {AiFailed} ELSE AiResults) :
         \E env \in (IF Executes(GatedIntent(lw, ai)) THEN ReqEnvs ELSE {QuietEnv}) :
           last' = ChatFlow(lw, ai, env, events, now)
  /\ Cardinality(last'.res.evs) <= MaxEvents
  /\ events' = last'.res.evs
  /\ UNCHANGED now

Voice ==
  /\ last = Idle
  /\ \E lw \in LightweightResults :
       \E ai \in (IF Confident(lw) THEN {AiFailed} ELSE AiResults) :
         \E env \in (IF Executes(GatedIntent(lw, ai)) THEN ReqEnvs ELSE {QuietEnv}) :
           last' = VoiceFlow(lw, ai, env, events, now)
  /\ Cardinality(last'.res.evs) <= MaxEvents
  /\ events' = last'.res.evs
  /\ UNCHANGED now

SmsKnown ==
  /\ last = Idle
  /\ \E lw \in LightweightResults, env \in ReqEnvs, replyOk \in BOOLEAN :
       last' = SmsFlow(lw, env, replyOk, events, now)
  /\ Cardinality(last'.res.evs) <= MaxEvents
  /\ events' = last'.res.evs
  /\ UNCHANGED now

SmsUnknown ==
  /\ last = Idle
  /\ \E lw \in LightweightResults, replyOk \in BOOLEAN :
       last' = SmsUnknownFlow(lw, replyOk, events)
  /\ UNCHANGED <<events, now>>

Next ==
  \/ Chat
  \/ Voice
  \/ SmsKnown
  \/ SmsUnknown
  \/ Return

Spec == Init /\ [][Next]_vars

\* ------------------------------------------------------ dispatcher claims
IsRequest == last.op \in {"chat", "voice", "sms"}

SideEffectOps == {"sendEmail", "sendSMS", "makeCall", "events.insert", "events.patch"}

ActionOps == SideEffectOps \cup {"events.list", "freebusy.query"}

PermissionFor(op, perms) ==
  CASE op = "sendEmail" -> perms.email
    [] op = "sendSMS" -> perms.sms
    [] op = "makeCall" -> perms.calls
    [] OTHER -> perms.calendar

\* C1: in every request flow, each side-effecting call (a transport send, an
\* event insert or patch, the SMS webhook's own messages included) comes
\* after a successful fetch of the account's permissions, and the permission
\* of the call's action family is granted.
C1_PermissionBeforeSideEffect ==
  IsRequest =>
    \A i \in 1..Len(last.calls) :
      last.calls[i].op \in SideEffectOps =>
        /\ \E j \in 1..(i - 1) :
             last.calls[j].op = "getUserPermissions" /\ last.calls[j].ok
        /\ PermissionFor(last.calls[i].op, last.env.perms)

SuccessIndicated == (last.executed /\ last.res.marker = "ok") \/ last.confirmed

\* C2: success is indicated (a result starting with the check mark, or the
\* voice flow's confirmation) only if the dispatcher made a transport or
\* event-store call that succeeded, and a result of the unmatched branch is
\* not indicated as a success.
C2_NoSuccessWithoutAction ==
  IsRequest =>
    /\ SuccessIndicated =>
         \E i \in 1..Len(last.res.calls) :
           last.res.calls[i].op \in ActionOps /\ last.res.calls[i].ok
    /\ (last.executed /\ last.res.branch = "unmatched") => ~SuccessIndicated

OwnFamily(tag) ==
  CASE tag = T_send_email -> "email"
    [] tag = T_set_reminder -> "reminder"
    [] tag = T_create_event -> "create"
    [] tag = T_reschedule -> "reschedule"
    [] tag = T_check_schedule -> "check_schedule"
    [] tag = T_check_availability -> "check_availability"
    [] tag = T_check_conflicts -> "check_conflicts"
    [] tag = T_find_time -> "find_time"
    [] tag = T_send_sms -> "sms"
    [] OTHER -> "unmatched"

\* C3: when the intent dispatched is the classifier's own and the dispatcher
\* gets as far as choosing a branch, the branch is the one of the tag's own
\* action family.
C3_TagReachesOwnFamily ==
  ( /\ IsRequest
    /\ last.executed
    /\ last.intent.tag = last.lw.tag
    /\ ~last.lw.needsAI
    /\ last.res.branch # "none" ) =>
      last.res.branch = OwnFamily(last.lw.tag)

Threshold(op) == IF op = "sms" THEN SmsThreshold ELSE ChatThreshold

ParseIntentCalled == \E i \in 1..Len(last.calls) : last.calls[i].op = "parseIntent"

\* C4: parseIntent is called only when the classifier's confidence is at or
\* below the flow's threshold (0.8 chat and voice, 0.6 SMS); above it the
\* classifier's intent is dispatched without a parseIntent call, and at or
\* below it nothing is dispatched that parseIntent did not return.
C4_FallbackOnlyBelowThreshold ==
  (IsRequest /\ last.known) =>
    /\ ParseIntentCalled => last.lw.confidence <= Threshold(last.op)
    /\ last.lw.confidence > Threshold(last.op) =>
         /\ ~ParseIntentCalled
         /\ last.executed
         /\ last.intent.tag = last.lw.tag /\ last.intent.params = last.lw.params
    /\ (last.lw.confidence <= Threshold(last.op) /\ last.executed) => ParseIntentCalled

\* C5: executeAction never throws, what it returns starts with the check
\* mark or the cross and nothing else, and when one of its calls failed it
\* starts with the cross.
C5_OnlyCheckOrCross ==
  (IsRequest /\ last.executed) =>
    /\ ~last.res.threw
    /\ last.res.marker \in {"ok", "err"}
    /\ (\E i \in 1..Len(last.res.calls) : ~last.res.calls[i].ok) => last.res.marker = "err"

WriteOps == {"events.insert", "events.patch"}

Writes == \E i \in 1..Len(last.res.calls) : last.res.calls[i].op \in WriteOps

CalendarGranted == last.env.perms.status = "ok" /\ last.env.perms.calendar

\* C11: when a reschedule intent without an event identifier is dispatched
\* for an account whose calendar is connected, the result asks the user to
\* specify the event, no event-store write is made and the event store is
\* left as it was.
C11_RescheduleWithoutIdAsks ==
  ( /\ IsRequest
    /\ last.executed
    /\ last.intent.tag = T_reschedule
    /\ last.intent.params.eventId = 0
    /\ CalendarGranted ) =>
      /\ last.res.msg = "ask_event"
      /\ ~Writes
      /\ last.res.evs = last.pre

\* The start times of the 30-minute grid of a range that smartSchedule's
\* filters would all let through: the event fits in the range, its hour is
\* inside the working hours, and nothing overlaps it with the buffer added
\* on both sides.
GridOf(range) ==
  { range.earliest + k * SlotStep : k \in 0..((range.latest - range.earliest) \div SlotStep) }

SurvivingCandidates(evs, req) ==
  { c \in GridOf(The(req.timeRange)) :
      /\ c + req.duration <= The(req.timeRange).latest
      /\ (req.workingHours # None) =>
           (Hour(c) >= The(req.workingHours).start /\ Hour(c) < The(req.workingHours).end)
      /\ OverlappingIn(evs, c - req.bufferTime, c + req.duration + req.bufferTime) = {} }

\* C12: when no call fails, no preferred time is free and the request's
\* time range holds a grid start that is free, within the working hours and
\* free with the buffer margin, smartSchedule books an event and returns
\* success.
C12_FailsOnlyWithoutCandidate ==
  ( /\ last.op = "smartSchedule"
    /\ last.env = EnvOk
    /\ last.req.timeRange # None
    /\ last.res.viaSearch
    /\ SurvivingCandidates(last.pre, last.req) # {} ) =>
      /\ last.res.success
      /\ events # last.pre

\* The grid starts of a findFreeTime request whose window [t, t+duration]
\* overlaps no event and ends by the cutoff.
FittingStarts ==
  { t \in GridOf([earliest |-> last.timeMin, latest |-> last.timeMax]) :
      /\ t + last.duration <= last.timeMax
      /\ OverlappingIn(last.pre, t, t + last.duration) = {} }

\* C13: when the free/busy query succeeds, findFreeTime returns the first
\* ten fitting grid starts in chronological order; on an empty calendar,
\* duration 30 and the window 9:00 to 10:00 give 9:00 and 9:30.
C13_FirstTenFittingStarts ==
  (last.op = "findFreeTime" /\ last.fb) =>
    /\ \A i \in 1..Len(last.res) : last.res[i] \in FittingStarts
    /\ \A i \in 1..Len(last.res) : \A j \in 1..Len(last.res) :
         i < j => last.res[i] < last.res[j]
    /\ Len(last.res) = Min2(MaxFreeSlots, Cardinality(FittingStarts))
    /\ \A t \in FittingStarts :
         (\A i \in 1..Len(last.res) : last.res[i] # t) =>
           \A i \in 1..Len(last.res) : last.res[i] < t
    /\ (last.pre = {} /\ last.duration = 30 /\ last.timeMin = 9 * 60
                      /\ last.timeMax = 10 * 60) =>
         last.res = << 9 * 60, 9 * 60 + 30 >>

\* C14: a slot that smartSchedule books through its automatic search with a
\* buffer time has no existing event overlapping the window from bufferTime
\* before it to bufferTime after its end.
C14_BookedSlotHasBuffer ==
  ( /\ last.op = "smartSchedule"
    /\ last.res.viaSearch
    /\ last.req.bufferTime > 0
    /\ events # last.pre ) =>
      OverlappingIn(last.pre, last.res.start - last.req.bufferTime,
                    last.res.start + last.req.duration + last.req.bufferTime) = {}

\* The times a findOptimalTime request returned.
ReturnedTimes ==
  last.res.optimalTime \cup { last.res.alternatives[i] : i \in 1..Len(last.res.alternatives) }

\* C15: every time findOptimalTime returns (the optimal time and at most
\* four alternatives) lies in the fourteen days after now, is free, has its
\* hour inside the working hours and its weekday among the working days when
\* these are given, and has bufferTime minutes free before and after.
C15_OptimalTimesMeetPreferences ==
  last.op = "findOptimalTime" =>
    /\ Len(last.res.alternatives) <= 4
    /\ \A x \in ReturnedTimes :
         /\ x >= now /\ x <= now + OptimalDays * MinutesPerDay
         /\ OverlappingIn(last.pre, x, x + last.duration) = {}
         /\ (last.preferences.workingHours # None) =>
              InWorkingHours(The(last.preferences.workingHours), x)
         /\ (last.preferences.workingDays # None) =>
              DayOfWeek(x) \in The(last.preferences.workingDays)
         /\ OverlappingIn(last.pre, x - last.preferences.bufferTime,
                          x + last.duration + last.preferences.bufferTime) = {}

ForwardBranches == {"create", "reminder", "reschedule"}

Resolved(time) == time # Absent /\ time # NoTime

TransportBranches == {"email", "sms", "call"}

BranchPermitted ==
  /\ last.env.perms.status = "ok"
  /\ CASE last.res.branch = "email" -> last.env.perms.email
        [] last.res.branch = "sms" -> last.env.perms.sms
        [] last.res.branch = "call" -> last.env.perms.calls
        [] OTHER -> last.env.perms.calendar

\* The parameter the branch taken requires and the intent does not carry.
MissingField ==
  CASE last.res.branch \in TransportBranches ->
         IF last.intent.params.to THEN "none" ELSE "ask_recipient"
    [] last.res.branch \in {"create", "reminder"} ->
         IF last.intent.params.time = Absent THEN "ask_time" ELSE "none"
    [] last.res.branch = "reschedule" ->
         IF last.intent.params.eventId = 0 THEN "ask_event"
         ELSE IF last.intent.params.time = Absent THEN "ask_time" ELSE "none"
    [] OTHER -> "none"

ActionCalls ==
  \E i \in 1..Len(last.res.calls) : last.res.calls[i].op \in ActionOps

\* C17: when the branch taken is permitted and a parameter it requires
\* (recipient, phone number, start time, reminder time, reschedule target) is
\* missing, the result asks for that field, no transport or event-store call
\* is made and the event store is unchanged.
C17_MissingParameterAsked ==
  (IsRequest /\ last.executed /\ BranchPermitted /\ MissingField # "none") =>
    /\ last.res.msg = MissingField
    /\ ~ActionCalls
    /\ last.res.evs = last.pre

NothingGranted ==
  \/ last.env.perms.status = "null"
  \/ /\ last.env.perms.status = "ok"
     /\ ~last.env.perms.email /\ ~last.env.perms.calendar
     /\ ~last.env.perms.sms /\ ~last.env.perms.calls

\* C18: when the permissions are null or all false, the dispatcher makes no
\* transport or event-store call and leaves the event store alone, and
\* unless the intent matched no branch at all the result tells the user to
\* connect the account.
C18_NoPermissionShortCircuits ==
  (IsRequest /\ last.executed /\ NothingGranted) =>
    /\ ~ActionCalls
    /\ last.res.evs = last.pre
    /\ last.res.branch # "unmatched" => last.res.msg = "connect"

\* The fallback classifier failed: the call threw or its text was empty or
\* not JSON (parseIntent's own fallback), or the JSON it answered with is not
\* an IntentResult.
FallbackFailed ==
  /\ last.fallback
  /\ \/ \E i \in 1..Len(last.calls) :
          last.calls[i].op = "parseIntent" /\ ~last.calls[i].ok
     \/ last.intent.tag = T_undefined

\* C19: when the fallback classifier fails, the intent is general_chat at
\* 0.5, no action is executed and the reply is a generated conversational
\* answer.
C19_FallbackFailureIsChat ==
  (IsRequest /\ FallbackFailed) =>
    /\ last.intent = AiFailed
    /\ ~last.executed
    /\ last.calls = << Call("parseIntent", FALSE), Call("generateResponse", TRUE) >>
    /\ last.reply = "generated"

\* ---- the lightweight classifier ----

\* A message is the sequence of its characters. A pattern is matched the way
\* a regular expression is: each element maps the set of positions a match
\* can have reached to the positions it can reach next, and the pattern
\* matches when a position is left at the end. Every pattern has the i flag;
\* the messages here are lower case.
Positions(s) == 1..(Len(s) + 1)

\* One of the literal alternatives.
Lit(s, lits, P) ==
  UNION { { p + Len(l) :
            l \in { x \in lits : /\ p + Len(x) - 1 <= Len(s)
                                /\ s[p] = x[1]
                                /\ SubSeq(s, p, p + Len(x) - 1) = x } } : p \in P }

\* .{0,n}
Gap(s, n, P) == { q \in Positions(s) : \E p \in P : (q - p) \in 0..n }

\* [class]{lo,hi}
Rep(s, class, lo, hi, P) ==
  { q \in Positions(s) : \E p \in P : (q - p) \in lo..hi /\ \A k \in p..(q - 1) : s[k] \in class }

Digit == { "0", "1", "2", "3", "4", "5", "6", "7", "8", "9" }
Letter ==
  { "a", "b", "c", "d", "e", "f", "g", "h", "i", "j", "k", "l", "m",
    "n", "o", "p", "q", "r", "s", "t", "u", "v", "w", "x", "y", "z" }

\* The email rule: either pattern finds an address,
\* [a-zA-Z0-9._%+-]+@[a-zA-Z0-9.-]+\.[a-zA-Z]{2,}, and the lower-cased
\* message includes a send verb.
emailPatterns(m) ==
  LET Address(P) ==
        Rep(m, Letter, 2, Len(m),
            Lit(m, { << "." >> },
                Rep(m, Letter \cup Digit \cup { ".", "-" }, 1, Len(m),
                    Lit(m, { << "@" >> },
                        Rep(m, Letter \cup Digit \cup { ".", "_", "%", "+", "-" }, 1, Len(m), P)))))
  IN /\ \/ Address(Rep(m, { " " }, 1, Len(m),
                       Lit(m, { << "t", "o" >>, << "a", "t" >> }, Gap(m, 30, Lit(m, { << "s", "e", "n", "d" >>, << "m", "a", "i", "l" >>, << "e", "m", "a", "i", "l" >> }, Positions(m)))))) # {}
        \/ Address(Positions(m)) # {}
     /\ Includes(m, << "s", "e", "n", "d" >>) \/ Includes(m, << "m", "a", "i", "l" >>) \/ Includes(m, W_email)

reminderPatterns(m) ==
  \/ Lit(m, { W_reminder }, Gap(m, 20, Lit(m, { << "s", "e", "t" >>, << "c", "r", "e", "a", "t", "e" >>, << "a", "d", "d" >> }, Positions(m)))) # {}
  \/ Lit(m, { << "m", "e" >> }, Gap(m, 20, Lit(m, { W_remind }, Positions(m)))) # {}

calendarPatterns(m) ==
  \/ Lit(m, { << "m", "e", "e", "t", "i", "n", "g" >>, << "e", "v", "e", "n", "t" >>, << "a", "p", "p", "o", "i", "n", "t", "m", "e", "n", "t" >>, << "c", "a", "l", "l" >> }, Gap(m, 20, Lit(m, { << "s", "c", "h", "e", "d", "u", "l", "e" >>, << "c", "r", "e", "a", "t", "e" >>, << "a", "d", "d" >>, << "b", "o", "o", "k" >>, << "s", "e", "t", " ", "u", "p" >> }, Positions(m)))) # {}
  \/ Lit(m, { << "a", "t" >>, << "o", "n" >>, << "f", "o", "r" >>, << "t", "o", "m", "o", "r", "r", "o", "w" >>, << "t", "o", "d", "a", "y" >>, << "n", "e", "x", "t" >> }, Gap(m, 30, Lit(m, { << "m", "e", "e", "t", "i", "n", "g" >>, << "e", "v", "e", "n", "t" >>, << "a", "p", "p", "o", "i", "n", "t", "m", "e", "n", "t" >> }, Positions(m)))) # {}

reschedulePatterns(m) ==
  \/ Lit(m, { << "m", "e", "e", "t", "i", "n", "g" >>, << "e", "v", "e", "n", "t" >>, << "a", "p", "p", "o", "i", "n", "t", "m", "e", "n", "t" >> }, Gap(m, 30, Lit(m, { << "r", "e", "s", "c", "h", "e", "d", "u", "l", "e" >>, << "m", "o", "v", "e" >>, << "c", "h", "a", "n", "g", "e" >> }, Positions(m)))) # {}
  \/ Lit(m, { << "t", "o" >>, << "f", "o", "r" >>, << "a", "t" >> }, Gap(m, 50, Lit(m, { << "r", "e", "s", "c", "h", "e", "d", "u", "l", "e" >>, << "m", "o", "v", "e" >>, << "c", "h", "a", "n", "g", "e", " ", "t", "i", "m", "e" >> }, Positions(m)))) # {}

\* The schedule rule. Blanks is \s+, Maybe(w, P) is (?:w\s+)?, HowIs is
\* (?:how.s|what.s|show), Day is the day group.
schedulePatterns(m) ==
  LET Blanks(P) == Rep(m, { " " }, 1, Len(m), P)
      Maybe(w, P) == P \cup Blanks(Lit(m, { w }, P))
      HowIs(P) ==
        Lit(m, { << "s" >> }, { q \in Positions(m) : (q - 1) \in Lit(m, { << "h", "o", "w" >>, << "w", "h", "a", "t" >> }, P) })
          \cup Lit(m, { << "s", "h", "o", "w" >> }, P)
      DoIHave(P) ==
        Lit(m, { << "h", "a", "v", "e" >> }, Blanks(Lit(m, { << "i" >> }, Blanks(Lit(m, { << "d", "o" >> }, P)))))
      OnMyCalendar(P) ==
        Lit(m, { W_calendar }, Blanks(Lit(m, { << "m", "y" >> }, Blanks(Lit(m, { << "o", "n" >> }, P)))))
      Day(P) == Lit(m, { << "t", "o", "d", "a", "y" >>, << "t", "o", "m", "o", "r", "r", "o", "w" >>, << "m", "o", "n", "d", "a", "y" >>, << "t", "u", "e", "s", "d", "a", "y" >>, << "w", "e", "d", "n", "e", "s", "d", "a", "y" >>, << "t", "h", "u", "r", "s", "d", "a", "y" >>, << "f", "r", "i", "d", "a", "y" >>, << "s", "a", "t", "u", "r", "d", "a", "y" >>, << "s", "u", "n", "d", "a", "y" >> }, P)
  IN \/ Day(Maybe(<< "f", "o", "r" >>, Gap(m, 30,
          Lit(m, { W_schedule }, Maybe(<< "m", "y" >>, Gap(m, 20, HowIs(Positions(m)))))))) # {}
     \/ Day(Maybe(<< "f", "o", "r" >>, Gap(m, 20,
          Lit(m, { W_schedule }, Maybe(<< "m", "y" >>, Positions(m)))))) # {}
     \/ Day(Gap(m, 30, DoIHave(Gap(m, 20, Lit(m, { << "w", "h", "a", "t" >>, << "h", "o", "w" >> }, Positions(m)))))) # {}
     \/ Day(Gap(m, 30, OnMyCalendar(Gap(m, 20, Lit(m, { << "w", "h", "a", "t" >>, << "h", "o", "w" >> }, Positions(m)))))) # {}

\* The availability rule. Clock is \d{1,2}:?\d{0,2}\s*(?:am|pm)?.
availabilityPatterns(m) ==
  LET Blanks(P) == Rep(m, { " " }, 1, Len(m), P)
      Maybe(w, P) == P \cup Blanks(Lit(m, { w }, P))
      AmPm(P) == P \cup Lit(m, { << "a", "m" >>, << "p", "m" >> }, P)
      Minutes(P) == AmPm(Rep(m, { " " }, 0, Len(m), Rep(m, Digit, 0, 2, P)))
      Colon(P) == Minutes(P \cup Lit(m, { << ":" >> }, P))
      Clock(P) == Colon(Rep(m, Digit, 1, 2, P))
      ClockOrDay(P) == Clock(P) \cup Lit(m, { << "t", "o", "d", "a", "y" >>, << "t", "o", "m", "o", "r", "r", "o", "w" >> }, P)
      MaybeClockOrDay(P) == P \cup ClockOrDay(P)
      DoIHave(P) ==
        Lit(m, { << "h", "a", "v", "e" >> }, Blanks(Lit(m, { << "i" >> }, Blanks(Lit(m, { << "d", "o" >> }, P)))))
  IN \/ Lit(m, { << "t", "o", "d", "a", "y" >>, << "t", "o", "m", "o", "r", "r", "o", "w" >> }, Gap(m, 20, Lit(m, { W_free }, Gap(m, 20,
          Clock(Maybe(<< "m", "y" >>, Gap(m, 20, Lit(m, { << "i", "s" >>, << "a", "m" >> }, Positions(m))))))))) # {}
     \/ Lit(m, { W_free }, Gap(m, 20, MaybeClockOrDay(Maybe(<< "a", "t" >>, Gap(m, 20,
          ClockOrDay(Gap(m, 20, Lit(m, { << "i", "s" >> }, Positions(m))))))))) # {}
     \/ Clock(Maybe(<< "a", "t" >>, Gap(m, 20, Lit(m, { << "a", "v", "a", "i", "l", "a", "b", "l", "e" >>, << "f", "r", "e", "e" >> }, Positions(m))))) # {}
     \/ Lit(m, { << "t", "o", "d", "a", "y" >>, << "t", "o", "m", "o", "r", "r", "o", "w" >> }, Gap(m, 20, Clock(Maybe(<< "a", "t" >>, Gap(m, 30,
          DoIHave(Positions(m))))))) # {}

conflictPatterns(m) ==
  \/ Lit(m, { << "a", "t" >>, << "o", "n" >>, << "f", "o", "r" >> }, Gap(m, 30, Lit(m, { << "c", "o", "n", "f", "l", "i", "c", "t", "s" >>, << "c", "o", "n", "f", "l", "i", "c", "t" >> }, Gap(m, 20,
       Lit(m, { << "c", "h", "e", "c", "k" >>, << "a", "n", "y" >> }, Positions(m)))))) # {}
  \/ Lit(m, { << "a", "t" >>, << "o", "n" >>, << "f", "o", "r" >> }, Gap(m, 30, Lit(m, { W_availability }, Gap(m, 20,
       Lit(m, { << "c", "h", "e", "c", "k" >>, << "s", "e", "e" >> }, Positions(m)))))) # {}

optimalTimePatterns(m) ==
  \/ Lit(m, { << "t", "i", "m", "e" >> }, Gap(m, 20, Lit(m, { << "b", "e", "s", "t" >>, << "o", "p", "t", "i", "m", "a", "l" >>, << "g", "o", "o", "d" >> }, Gap(m, 20,
       Lit(m, { << "f", "i", "n", "d" >>, << "s", "u", "g", "g", "e", "s", "t" >>, << "w", "h", "e", "n" >> }, Positions(m)))))) # {}
  \/ Lit(m, { << "t", "i", "m", "e" >> }, Gap(m, 20, Lit(m, { << "f", "r", "e", "e" >>, << "a", "v", "a", "i", "l", "a", "b", "l", "e" >> }, Gap(m, 30,
       Lit(m, { << "f", "i", "n", "d" >>, << "w", "h", "e", "n" >> }, Positions(m)))))) # {}

\* The sms rule. Phone is \+?\d{10,15}.
smsPatterns(m) ==
  LET Phone(P) == Rep(m, Digit, 10, 15, P \cup Lit(m, { << "+" >> }, P))
  IN \/ Phone(Gap(m, 10, Lit(m, { << "t", "o" >>, << "p", "h", "o", "n", "e" >>, << "n", "u", "m", "b", "e", "r" >> }, Gap(m, 50, Lit(m, { << "s", "m", "s" >>, << "m", "e", "s", "s", "a", "g", "e" >> }, Gap(m, 20,
          Lit(m, { << "s", "e", "n", "d" >>, << "t", "e", "x", "t" >> }, Positions(m)))))))) # {}
     \/ Phone(Gap(m, 10, Lit(m, { << "t", "e", "x", "t" >>, << "s", "m", "s" >> }, Positions(m)))) # {}

\* What a rule returns: its tag, its fixed confidence (in hundredths) and
\* needsAI.
LightweightIntent(tag, confidence, needsAI) ==
  [tag |-> tag, confidence |-> confidence, needsAI |-> needsAI]

\* The same rules with the schedule query tried before the calendar event.
parseIntentLightweight_ScheduleFirst(message) ==
  IF emailPatterns(message) THEN LightweightIntent(T_send_email, 95, FALSE)
  ELSE IF reminderPatterns(message) THEN LightweightIntent(T_set_reminder, 90, FALSE)
  ELSE IF schedulePatterns(message) THEN LightweightIntent(T_check_schedule, 90, FALSE)
  ELSE IF calendarPatterns(message) THEN LightweightIntent(T_create_event, 85, FALSE)
  ELSE IF reschedulePatterns(message) THEN LightweightIntent(T_reschedule, 90, FALSE)
  ELSE IF availabilityPatterns(message) THEN LightweightIntent(T_check_availability, 90, FALSE)
  ELSE IF conflictPatterns(message) THEN LightweightIntent(T_check_conflicts, 85, FALSE)
  ELSE IF optimalTimePatterns(message) THEN LightweightIntent(T_find_time, 80, FALSE)
  ELSE IF smsPatterns(message) THEN LightweightIntent(T_send_sms, 90, FALSE)
  ELSE LightweightIntent(T_general_chat, 30, TRUE)

parseIntentLightweight(message) ==
  IF emailPatterns(message) THEN LightweightIntent(T_send_email, 95, FALSE)
  ELSE IF reminderPatterns(message) THEN LightweightIntent(T_set_reminder, 90, FALSE)
  ELSE IF calendarPatterns(message) THEN LightweightIntent(T_create_event, 85, FALSE)
  ELSE IF reschedulePatterns(message) THEN LightweightIntent(T_reschedule, 90, FALSE)
  ELSE IF schedulePatterns(message) THEN LightweightIntent(T_check_schedule, 90, FALSE)
  ELSE IF availabilityPatterns(message) THEN LightweightIntent(T_check_availability, 90, FALSE)
  ELSE IF conflictPatterns(message) THEN LightweightIntent(T_check_conflicts, 85, FALSE)
  ELSE IF optimalTimePatterns(message) THEN LightweightIntent(T_find_time, 80, FALSE)
  ELSE IF smsPatterns(message) THEN LightweightIntent(T_send_sms, 90, FALSE)
  ELSE LightweightIntent(T_general_chat, 30, TRUE)

\* The messages: up to MaxWords words of a small vocabulary, a blank between
\* two words; the message "schedule meeting tomorrow at 5pm"; and messages
\* whose words are not in the vocabulary (for the conflict and the find-time
\* rules, the verbs move and change, an address at gmail.com).
MaxWords == 3

Vocabulary ==
  { << "e", "m", "a", "i", "l" >>,
    << "b", "o", "b", "@", "c", "o", "r", "p", ".", "i", "o" >>,
    << "r", "e", "m", "i", "n", "d" >>,
    << "s", "c", "h", "e", "d", "u", "l", "e" >>,
    << "r", "e", "s", "c", "h", "e", "d", "u", "l", "e" >>,
    << "m", "e", "e", "t", "i", "n", "g" >>,
    << "t", "o", "m", "o", "r", "r", "o", "w" >>,
    << "a", "t" >>,
    << "5", "p", "m" >>,
    << "f", "r", "e", "e" >>,
    << "t", "e", "x", "t" >>,
    << "+", "1", "5", "5", "5", "1", "2", "3", "4", "5", "6", "7" >> }

RECURSIVE Join(_)
Join(ws) ==
  IF Len(ws) = 1 THEN ws[1] ELSE ws[1] \o << " " >> \o Join(Tail(ws))

ScheduleMeetingTomorrow == << "s", "c", "h", "e", "d", "u", "l", "e", " ", "m", "e", "e", "t", "i", "n", "g", " ", "t", "o", "m", "o", "r", "r", "o", "w", " ", "a", "t", " ", "5", "p", "m" >>

Messages ==
  { Join(ws) : ws \in UNION { [1..n -> Vocabulary] : n \in 1..MaxWords } }
  \cup { ScheduleMeetingTomorrow }
  \cup { << "c", "h", "e", "c", "k", " ", "c", "o", "n", "f", "l", "i", "c", "t", "s", " ", "a", "t", " ", "5", "p", "m" >>,
    << "c", "h", "e", "c", "k", " ", "c", "o", "n", "f", "l", "i", "c", "t", "s", " ", "f", "o", "r", " ", "m", "e", "e", "t", "i", "n", "g", " ", "t", "o", "m", "o", "r", "r", "o", "w" >>,
    << "f", "i", "n", "d", " ", "f", "r", "e", "e", " ", "t", "i", "m", "e", " ", "t", "o", "m", "o", "r", "r", "o", "w" >>,
    << "f", "i", "n", "d", " ", "f", "r", "e", "e", " ", "t", "i", "m", "e", " ", "a", "t", " ", "5", "p", "m" >>,
    << "f", "i", "n", "d", " ", "b", "e", "s", "t", " ", "t", "i", "m", "e" >>,
    << "r", "e", "s", "c", "h", "e", "d", "u", "l", "e", " ", "m", "y", " ", "m", "e", "e", "t", "i", "n", "g", " ", "t", "o", " ", "t", "o", "m", "o", "r", "r", "o", "w", " ", "a", "t", " ", "3", "p", "m" >>,
    << "m", "o", "v", "e", " ", "m", "e", "e", "t", "i", "n", "g" >>,
    << "c", "h", "a", "n", "g", "e", " ", "m", "y", " ", "a", "p", "p", "o", "i", "n", "t", "m", "e", "n", "t" >>,
    << "b", "o", "b", "@", "g", "m", "a", "i", "l", ".", "c", "o", "m" >>,
    << "m", "e", "e", "t", "i", "n", "g", " ", "w", "i", "t", "h", " ", "b", "o", "b", "@", "g", "m", "a", "i", "l", ".", "c", "o", "m" >>,
    << "e", "m", "a", "i", "l", " ", "b", "o", "b", "@", "g", "m", "a", "i", "l", ".", "c", "o", "m" >> }

ClassifyMessage ==
  /\ last = Idle
  /\ \E m \in Messages :
       last' = [op |-> "parseIntentLightweight", message |-> m,
                res |-> parseIntentLightweight(m)]
  /\ UNCHANGED <<events, now>>

ClassifyNext ==
  \/ ClassifyMessage
  \/ Return

SpecClassify == Init /\ [][ClassifyNext]_vars

\* The family a name of the fixed order stands for: whether its rule matches
\* (for email, with the send-verb gate), and the tag it returns.
FamilyMatches(family, m) ==
  CASE family = "email" -> emailPatterns(m)
    [] family = "reminder" -> reminderPatterns(m)
    [] family = "calendar-create" -> calendarPatterns(m)
    [] family = "reschedule" -> reschedulePatterns(m)
    [] family = "check_schedule" -> schedulePatterns(m)
    [] family = "check_availability" -> availabilityPatterns(m)
    [] family = "check_conflicts" -> conflictPatterns(m)
    [] family = "find_time" -> optimalTimePatterns(m)
    [] family = "sms" -> smsPatterns(m)

FamilyTag(family) ==
  CASE family = "email" -> T_send_email
    [] family = "reminder" -> T_set_reminder
    [] family = "calendar-create" -> T_create_event
    [] family = "reschedule" -> T_reschedule
    [] family = "check_schedule" -> T_check_schedule
    [] family = "check_availability" -> T_check_availability
    [] family = "check_conflicts" -> T_check_conflicts
    [] family = "find_time" -> T_find_time
    [] family = "sms" -> T_send_sms

FixedOrder ==
  << "email", "reminder", "calendar-create", "reschedule", "check_schedule",
     "check_availability", "check_conflicts", "find_time", "sms" >>

Matching(m) == { i \in 1..Len(FixedOrder) : FamilyMatches(FixedOrder[i], m) }

Least(S) == { i \in S : \A j \in S : i <= j }

FirstMatching(m) == Least(Matching(m))

Classified == last.op = "parseIntentLightweight"

\* C20: the classifier returns the tag of the first family, in the order
\* email, reminder, calendar-create, reschedule, check_schedule,
\* check_availability, check_conflicts, find_time, sms, whose patterns match
\* the message, with needsAI false; it returns general_chat at 0.3 with
\* needsAI true exactly when no family matches; and "schedule meeting
\* tomorrow at 5pm", which matches the create_event and the check_schedule
\* patterns, is classified create_event.
C20_FirstMatchingFamilyWins ==
  Classified =>
    /\ \A first \in { FirstMatching(last.message) } :
         /\ \A i \in first : last.res.tag = FamilyTag(FixedOrder[i]) /\ ~last.res.needsAI
         /\ (first = {}) <=> (last.res = LightweightIntent(T_general_chat, 30, TRUE))
    /\ (last.message = ScheduleMeetingTomorrow) =>
         /\ calendarPatterns(last.message)
         /\ schedulePatterns(last.message)
         /\ last.res.tag = T_create_event

C20_Witness ==
  /\ Classified
  /\ last.message = ScheduleMeetingTomorrow
  /\ calendarPatterns(last.message)
  /\ schedulePatterns(last.message)
  /\ last.res = LightweightIntent(T_create_event, 85, FALSE)

\* One of the verbs reschedule, move, change within 30 characters before
\* meeting, event or appointment.
RescheduleVerbNearNoun(m) ==
  Lit(m, { << "m", "e", "e", "t", "i", "n", "g" >>, << "e", "v", "e", "n", "t" >>, << "a", "p", "p", "o", "i", "n", "t", "m", "e", "n", "t" >> },
      Gap(m, 30, Lit(m, { << "r", "e", "s", "c", "h", "e", "d", "u", "l", "e" >>, << "m", "o", "v", "e" >>, << "c", "h", "a", "n", "g", "e" >> }, Positions(m)))) # {}

RescheduleMyMeeting == << "r", "e", "s", "c", "h", "e", "d", "u", "l", "e", " ", "m", "y", " ", "m", "e", "e", "t", "i", "n", "g", " ", "t", "o", " ", "t", "o", "m", "o", "r", "r", "o", "w", " ", "a", "t", " ", "3", "p", "m" >>

\* C21: a message with reschedule, move or change near meeting, event or
\* appointment (for example "reschedule my meeting to tomorrow at 3pm") is
\* classified reschedule at 0.9, not create_event.
C21_RescheduleVerbIsReschedule ==
  (Classified /\ RescheduleVerbNearNoun(last.message)) =>
    last.res = LightweightIntent(T_reschedule, 90, FALSE)

\* w occurs in m as a word: between blanks or the ends of the message.
HasWord(m, w) ==
  \E i \in 1..(Len(m) - Len(w) + 1) :
    /\ SubSeq(m, i, i + Len(w) - 1) = w
    /\ i = 1 \/ m[i - 1] = " "
    /\ i + Len(w) - 1 = Len(m) \/ m[i + Len(w)] = " "

\* The message holds an address (these messages have an at sign in their
\* addresses only) and none of the words send, mail, email.
AddressWithoutSendVerb(m) ==
  /\ Includes(m, << "@" >>)
  /\ ~HasWord(m, << "s", "e", "n", "d" >>) /\ ~HasWord(m, << "m", "a", "i", "l" >>) /\ ~HasWord(m, << "e", "m", "a", "i", "l" >>)

\* C22: a message with an email address and none of the verbs send, mail,
\* email as a word is not classified send_email, whatever the address
\* (bob@gmail.com included).
C22_AddressAloneIsNotEmail ==
  (Classified /\ AddressWithoutSendVerb(last.message)) => last.res.tag # T_send_email

\* ---- the time resolver ----

\* An instant is a number of minutes since 00:00 UTC of day 0; the null of
\* parseNaturalTime is NoTime. istOffset is 5.5 hours.
IstOffset == 330

DigitChars == << "0", "1", "2", "3", "4", "5", "6", "7", "8", "9" >>

\* parseInt of a run of digits.
RECURSIVE parseInt(_)
parseInt(ds) ==
  IF ds = << >> THEN 0
  ELSE 10 * parseInt(SubSeq(ds, 1, Len(ds) - 1))
         + (CHOOSE d \in 0..9 : DigitChars[d + 1] = ds[Len(ds)])

\* extractNumber: the first group of the leftmost match of
\* (?:in\s+)?(\d+)\s*(?:minute|hour|day), or 0 (null counts as 0 in the
\* callers' tests).
extractNumber(text) ==
  LET Unit(P) == Lit(text, { << "m", "i", "n", "u", "t", "e" >>, << "h", "o", "u", "r" >>, << "d", "a", "y" >> },
                     Rep(text, { " " }, 0, Len(text), P))
      runs == UNION { { << i, j >> : j \in { q \in Rep(text, Digit, 1, Len(text), { i }) :
                                               Unit({ q }) # {} } } :
                      i \in { k \in 1..Len(text) : text[k] \in Digit } }
  IN IF runs = {} THEN 0
     ELSE LET first == CHOOSE r \in runs : \A q \in runs : r[1] <= q[1]
          IN parseInt(SubSeq(text, first[1], first[2] - 1))

\* The leftmost match of (\d{1,2}):?(\d{2})?\s*(am|pm)? (each part takes
\* what it can, the rest being optional): hours, minutes, am/pm; None
\* without a digit.
timeMatch(s) ==
  LET At(k) == IF k \in 1..Len(s) THEN s[k] ELSE ""
      digits == { k \in 1..Len(s) : s[k] \in Digit }
  IN IF digits = {} THEN None
     ELSE LET i == CHOOSE k \in digits : \A j \in digits : k <= j
              h == IF At(i + 1) \in Digit THEN i + 2 ELSE i + 1
              c == IF At(h) = ":" THEN h + 1 ELSE h
              two == At(c) \in Digit /\ At(c + 1) \in Digit
              e == IF two THEN c + 2 ELSE c
              b == CHOOSE k \in e..(Len(s) + 1) :
                     /\ \A j \in e..(k - 1) : s[j] = " "
                     /\ At(k) # " "
          IN Some([hours |-> parseInt(SubSeq(s, i, h - 1)),
                   minutes |-> IF two THEN parseInt(SubSeq(s, c, c + 1)) ELSE 0,
                   ampm |-> IF << At(b), At(b + 1) >> \in { << "a", "m" >>, << "p", "m" >> }
                            THEN At(b) ELSE ""])

\* Date.setUTCHours(hours, minutes, 0, 0) on the UTC day of an instant; the
\* Date carries values outside 0..23 and 0..59 over to the neighbouring days.
setUTCHours(date, hours, minutes) ==
  (date \div MinutesPerDay) * MinutesPerDay + hours * 60 + minutes

\* hours after the am/pm adjustment.
Meridiem(t) ==
  IF t.ampm = "p" /\ t.hours # 12 THEN t.hours + 12
  ELSE IF t.ampm = "a" /\ t.hours = 12 THEN 0
  ELSE t.hours

\* The branch of "tomorrow", of "next week" and of a clock time today. zone
\* is the offset of the host's time zone from UTC, which getHours and
\* getMinutes of nowIST apply on top of istOffset.
ClockBranches(timeStr, ref, zone) ==
  LET match == timeMatch(timeStr)
  IN
  IF Includes(timeStr, << "t", "o", "m", "o", "r", "r", "o", "w" >>)
  THEN IF match # None
       THEN LET t == The(match)
            IN setUTCHours(ref + MinutesPerDay, Meridiem(t) - 5, t.minutes - 30)
       ELSE setUTCHours(ref + MinutesPerDay, 3, 30)
  ELSE IF Includes(timeStr, << "n", "e", "x", "t", " ", "w", "e", "e", "k" >>)
  THEN setUTCHours(ref + 7 * MinutesPerDay, 3, 30)
  ELSE IF match # None
  THEN LET t == The(match)
           current == (ref + IstOffset + zone) % MinutesPerDay
           hours == IF t.ampm = "" /\ t.hours < 12
                    THEN IF t.hours * 60 + t.minutes <= current
                         THEN t.hours + 12 ELSE t.hours
                    ELSE Meridiem(t)
           result == setUTCHours(ref, hours - 5, t.minutes - 30)
       IN IF result <= ref THEN result + MinutesPerDay ELSE result
  ELSE NoTime

parseNaturalTime(timeStr, ref, zone) ==
  LET number == extractNumber(timeStr)
  IN
  IF timeStr = << >> THEN NoTime
  ELSE IF Includes(timeStr, << "m", "i", "n", "u", "t", "e" >>) /\ number # 0 THEN ref + number
  ELSE IF Includes(timeStr, << "h", "o", "u", "r" >>) /\ number # 0 THEN ref + number * 60
  ELSE IF Includes(timeStr, << "d", "a", "y" >>) /\ number # 0 THEN ref + number * MinutesPerDay
  ELSE ClockBranches(timeStr, ref, zone)

\* The time expressions: a phrase says what is meant, Render writes it the
\* way a message does. Relative phrases: "in N units", "N units from now",
\* "N units later", "after N units", "N mins from now". Clock times: "H:MM",
\* "Ham", "H:MMpm". Tomorrow: "tomorrow", "tomorrow at" and a clock time.
MaxAmount == 3

Amounts == (1..MaxAmount) \cup { 20, 30 }

RECURSIVE ToDigits(_)
ToDigits(n) ==
  IF n < 10 THEN << DigitChars[n + 1] >>
  ELSE ToDigits(n \div 10) \o << DigitChars[(n % 10) + 1] >>

Phrase(kind, form, n, unit, timed, h, m, ampm) ==
  [kind |-> kind, form |-> form, n |-> n, unit |-> unit, timed |-> timed,
   h |-> h, m |-> m, ampm |-> ampm]

Phrases ==
  { Phrase("relative", form, n, unit, FALSE, 0, 0, "") :
      form \in { "in", "from now", "later", "after" }, n \in Amounts,
      unit \in { << "m", "i", "n", "u", "t", "e" >>, << "h", "o", "u", "r" >>, << "d", "a", "y" >> } }
  \cup { Phrase("relative", "mins", n, << "m", "i", "n", "u", "t", "e" >>, FALSE, 0, 0, "") : n \in Amounts }
  \cup { Phrase("clock", "", 0, << >>, TRUE, h, m, "") :
           h \in { 0, 1, 4, 9, 10, 11, 12, 13, 23 }, m \in { 0, 30, 45 } }
  \cup { Phrase("tomorrow", "", 0, << >>, FALSE, 0, 0, "") }
  \cup { Phrase("tomorrow", "", 0, << >>, TRUE, h, m, ampm) :
           h \in { 1, 3, 10, 12 }, m \in { 0, 15, 30 }, ampm \in { "", "a", "p" } }

Render(p) ==
  LET amount == ToDigits(p.n) \o << " " >> \o p.unit \o (IF p.n = 1 THEN << >> ELSE << "s" >>)
      minutes == IF p.m < 10 THEN << "0" >> \o ToDigits(p.m) ELSE ToDigits(p.m)
      clock == IF p.ampm = "" THEN ToDigits(p.h) \o << ":" >> \o minutes
               ELSE ToDigits(p.h) \o (IF p.m = 0 THEN << >> ELSE << ":" >> \o minutes)
                      \o << p.ampm, "m" >>
  IN CASE p.kind = "relative" /\ p.form = "in" -> << "i", "n", " " >> \o amount
       [] p.kind = "relative" /\ p.form = "from now" -> amount \o << " ", "f", "r", "o", "m", " ", "n", "o", "w" >>
       [] p.kind = "relative" /\ p.form = "later" -> amount \o << " ", "l", "a", "t", "e", "r" >>
       [] p.kind = "relative" /\ p.form = "after" -> << "a", "f", "t", "e", "r", " " >> \o amount
       [] p.kind = "relative" /\ p.form = "mins" -> ToDigits(p.n) \o << " ", "m", "i", "n", "s", " ", "f", "r", "o", "m", " ", "n", "o", "w" >>
       [] p.kind = "clock" -> clock
       [] p.kind = "tomorrow" /\ ~p.timed -> << "t", "o", "m", "o", "r", "r", "o", "w" >>
       [] p.kind = "tomorrow" /\ p.timed -> << "t", "o", "m", "o", "r", "r", "o", "w", " ", "a", "t", " " >> \o clock

\* referenceNow: every half hour of day 1 (UTC). The host's zone: UTC or
\* Asia/Kolkata.
ReferenceNows == { MinutesPerDay + 30 * k : k \in 0..47 }

HostZones == { 0, IstOffset }

ResolveTime ==
  /\ last = Idle
  /\ \E p \in Phrases :
       \E text \in { Render(p) } :
         \E t \in ReferenceNows, z \in HostZones :
           last' = [op |-> "parseNaturalTime", phrase |-> p, now |-> t, zone |-> z,
                    res |-> parseNaturalTime(text, t, z)]
  /\ UNCHANGED <<events, now>>

ResolveNext ==
  \/ ResolveTime
  \/ Return

SpecResolve == Init /\ [][ResolveNext]_vars

Resolved_(kind) == last.op = "parseNaturalTime" /\ last.phrase.kind = kind

\* The minutes of the day a clock phrase names, and the start of the IST day
\* of an instant.
NamedMinutes(p) ==
  (IF p.ampm = "p" /\ p.h # 12 THEN p.h + 12
   ELSE IF p.ampm = "a" /\ p.h = 12 THEN 0 ELSE p.h) * 60 + p.m

IstMidnight(t) == ((t + IstOffset) \div MinutesPerDay) * MinutesPerDay - IstOffset

\* The same-day instant of a bare clock time: H:MM if H >= 12 or H:MM has
\* not elapsed in IST, (H+12):MM otherwise.
SameDay(p, t) ==
  IF p.h >= 12 \/ IstMidnight(t) + NamedMinutes(p) > t
  THEN IstMidnight(t) + NamedMinutes(p)
  ELSE IstMidnight(t) + NamedMinutes(p) + 12 * 60

\* C23: a bare clock time H:MM resolves to the same-day instant (H:MM, or
\* (H+12):MM when H < 12 and H:MM has elapsed), rolled forward by exactly one
\* day when that instant is not after referenceNow; the result is strictly
\* after referenceNow.
C23_BareClockRollsForward ==
  Resolved_("clock") =>
    /\ last.res > last.now
    /\ last.res = IF SameDay(last.phrase, last.now) > last.now
                  THEN SameDay(last.phrase, last.now)
                  ELSE SameDay(last.phrase, last.now) + MinutesPerDay

UnitMinutes(unit) ==
  CASE unit = << "m", "i", "n", "u", "t", "e" >> -> 1 [] unit = << "h", "o", "u", "r" >> -> 60 [] unit = << "d", "a", "y" >> -> MinutesPerDay

\* C24: "in N units" resolves to referenceNow plus N units, and so do "N
\* units from now", "N units later", "after N units" and "N mins from now".
C24_RelativeAddsDuration ==
  Resolved_("relative") =>
    last.res = last.now + last.phrase.n * UnitMinutes(last.phrase.unit)

\* C25: "tomorrow" resolves to the day after referenceNow's IST date, at the
\* named IST time or at 09:00 IST.
C25_TomorrowIsNextIstDay ==
  Resolved_("tomorrow") =>
    last.res = IstMidnight(last.now) + MinutesPerDay
                 + (IF last.phrase.timed THEN NamedMinutes(last.phrase) ELSE 9 * 60)

QueryTags == { T_check_schedule, T_check_availability, T_check_conflicts, T_find_time }

\* C26: a request whose intent is one of the read-only queries
\* (check_schedule, check_availability, check_conflicts, find_time) leaves
\* the event store as it was, in the chat, the voice and the SMS flow.
C26_QueriesLeaveStoreUnchanged ==
  (IsRequest /\ last.intent.tag \in QueryTags) =>
    /\ last.res.evs = last.pre
    /\ ~Writes

\* ---- two concurrent smartSchedule requests ----

\* Two requests of one account, each with one preferred time. A request
\* gives up control at every await: after checkConflicts of the preferred
\* time ("check") it either creates the event ("create") or, on a conflict,
\* goes on to the automatic search ("search", taken here in one step).
Racer(preferredTime, duration) ==
  [pc |-> "check", req |-> [duration |-> duration, preferredTimes |-> << preferredTime >>,
                            timeRange |-> None, workingHours |-> None, bufferTime |-> 0],
   calls |-> << >>, booked |-> None]

ConcurrentBegin ==
  /\ last = Idle
  /\ Cardinality(events) < MaxEvents
  /\ \E s1 \in Starts, s2 \in Starts, d \in Durations :
       last' = [op |-> "concurrent", pre |-> events,
                racers |-> << Racer(s1, d), Racer(s2, d) >>]
  /\ UNCHANGED <<events, now>>

\* await this.checkConflicts(userId, preferredTime, endTime)
SmartCheckStep ==
  /\ last.op = "concurrent"
  /\ \E i \in 1..2 :
       /\ last.racers[i].pc = "check"
       /\ LET r == last.racers[i]
              conflictCheck == CheckConflicts(events, EnvOk, r.req.preferredTimes[1],
                                              r.req.preferredTimes[1] + r.req.duration)
          IN last' = [last EXCEPT !.racers[i].pc =
                                    IF conflictCheck.hasConflicts THEN "search" ELSE "create",
                                  !.racers[i].calls = conflictCheck.calls]
  /\ UNCHANGED <<events, now>>

\* await this.createEvent(userId, { ... start: preferredTime, end: endTime })
SmartCreateStep ==
  /\ last.op = "concurrent"
  /\ \E i \in 1..2 :
       /\ last.racers[i].pc = "create"
       /\ LET r == last.racers[i]
              cr == CreateEvent(events, EnvOk, r.req.preferredTimes[1],
                                r.req.preferredTimes[1] + r.req.duration)
          IN /\ events' = cr.evs
             /\ last' = [last EXCEPT !.racers[i].pc = "done",
                                     !.racers[i].calls = r.calls \o cr.calls,
                                     !.racers[i].booked = cr.event]
  /\ UNCHANGED now

SmartSearchStep ==
  /\ last.op = "concurrent"
  /\ \E i \in 1..2 :
       /\ last.racers[i].pc = "search"
       /\ LET res == SmartSearch(events, EnvOk, now, last.racers[i].req, last.racers[i].calls)
          IN /\ events' = res.evs
             /\ last' = [last EXCEPT !.racers[i].pc = "done",
                                     !.racers[i].calls = res.calls,
                                     !.racers[i].booked = res.event]
  /\ UNCHANGED now

ConcurrentEnd ==
  /\ (last.op = "concurrent") => \A i \in 1..2 : last.racers[i].pc = "done"
  /\ Return

ConcurrentNext ==
  \/ SchedCreate
  \/ SchedDelete
  \/ ConcurrentBegin
  \/ SmartCheckStep
  \/ SmartCreateStep
  \/ SmartSearchStep
  \/ ConcurrentEnd

SpecConcurrent == Init /\ [][ConcurrentNext]_vars

\* C27: two concurrent smartSchedule requests never both book overlapping
\* events: the events the two requests created, after their conflict checks,
\* do not overlap.
C27_ConcurrentBookingsDisjoint ==
  (last.op = "concurrent") =>
    \A e1 \in last.racers[1].booked, e2 \in last.racers[2].booked :
      ~Overlaps(e1.start, e1.end, e2)

\* C28: checkConflicts reports hasConflicts = false only when the event
\* store was read successfully and holds no event overlapping the window.
C28_NoConflictsMeansChecked ==
  (last.op = "checkConflicts" /\ ~last.res.hasConflicts) =>
    /\ last.env.list
    /\ OverlappingIn(last.pre, last.startTime, last.endTime) = {}

\* C29: in the chat and the voice flow, every intent the classifier
\* recognises by rule (needsAI false), find_time with its confidence of 0.8
\* included, passes the confidence gate and is dispatched without a
\* parseIntent call; parseIntent is reached only for general_chat results.
C29_RuleIntentsPassGate ==
  (last.op \in {"chat", "voice"} /\ last.known) =>
    /\ ~last.lw.needsAI =>
         /\ ~ParseIntentCalled
         /\ last.executed
         /\ last.intent.tag = last.lw.tag
    /\ ParseIntentCalled => last.lw.tag = T_general_chat

\* ---------------------------------------------------------------------------
\* The shared OAuth client: googleOAuthService is one object with one
\* oauth2Client, and every request sets its credentials on that client.
\* Two requests, one for account A and one for account B, run between their
\* awaits in any order; the client's credentials and each request's position
\* are kept in last.
\* ---------------------------------------------------------------------------
Accounts == {"A", "B"}

NoCredentials == [account |-> "none", kind |-> "none"]

AccountTokens(userId) == [account |-> userId, kind |-> "tokens"]

\* setCredentials({refresh_token: refreshToken})
RefreshCredentials(userId) == [account |-> userId, kind |-> "refresh_token"]

Moved(userId, pc) == [last EXCEPT !.pc[userId] = pc]

\* Two getEvents calls are entered; the client holds what an earlier request
\* left on it, and each account's stored tokens are expired or not.
OAuthBegin ==
  /\ last = Idle
  /\ \E left \in {NoCredentials} \cup { AccountTokens(u) : u \in Accounts },
        expired \in [Accounts -> BOOLEAN] :
       last' = [op |-> "oauth", credentials |-> left, expired |-> expired,
                pc |-> [u \in Accounts |-> "start"],
                used |-> [u \in Accounts |-> NoCredentials]]
  /\ UNCHANGED <<events, now>>

\* getAuthenticatedCalendarClient: await userAuthService.getGoogleAuth(userId)
getGoogleAuth ==
  /\ last.op = "oauth"
  /\ \E userId \in Accounts :
       /\ last.pc[userId] = "start"
       /\ last' = Moved(userId, "userAuth")
  /\ UNCHANGED <<events, now>>

\* ensureValidTokens: tokens that are not about to expire are returned as
\* they are; otherwise refreshTokens sets the refresh token on the client and
\* awaits refreshAccessToken.
ensureValidTokens ==
  /\ last.op = "oauth"
  /\ \E userId \in Accounts :
       /\ last.pc[userId] = "userAuth"
       /\ last' = IF last.expired[userId]
                  THEN [Moved(userId, "refreshing")
                          EXCEPT !.credentials = RefreshCredentials(userId)]
                  ELSE Moved(userId, "validTokens")
  /\ UNCHANGED <<events, now>>

\* refreshTokens returns the refreshed credentials of the account.
refreshTokens ==
  /\ last.op = "oauth"
  /\ \E userId \in Accounts :
       /\ last.pc[userId] = "refreshing"
       /\ last' = Moved(userId, "refreshed")
  /\ UNCHANGED <<events, now>>

\* if (validTokens !== userAuth.tokens) await userAuthService.saveGoogleAuth
saveGoogleAuth ==
  /\ last.op = "oauth"
  /\ \E userId \in Accounts :
       /\ last.pc[userId] = "refreshed"
       /\ last' = Moved(userId, "validTokens")
  /\ UNCHANGED <<events, now>>

\* getAuthenticatedClient(validTokens): the account's tokens are set on the
\* shared client and the shared client is returned.
getAuthenticatedClient ==
  /\ last.op = "oauth"
  /\ \E userId \in Accounts :
       /\ last.pc[userId] = "validTokens"
       /\ last' = [Moved(userId, "calendar")
                     EXCEPT !.credentials = AccountTokens(userId)]
  /\ UNCHANGED <<events, now>>

\* getEvents resumes after await this.getAuthenticatedCalendarClient(userId)
\* and calls calendar.events.list, which is sent with the credentials the
\* client holds at that moment.
getEventsList ==
  /\ last.op = "oauth"
  /\ \E userId \in Accounts :
       /\ last.pc[userId] = "calendar"
       /\ last' = [Moved(userId, "listed") EXCEPT !.used[userId] = last.credentials]
  /\ UNCHANGED <<events, now>>

OAuthEnd ==
  /\ (last.op = "oauth") => \A userId \in Accounts : last.pc[userId] = "listed"
  /\ Return

OAuthNext ==
  \/ OAuthBegin
  \/ getGoogleAuth
  \/ ensureValidTokens
  \/ refreshTokens
  \/ saveGoogleAuth
  \/ getAuthenticatedClient
  \/ getEventsList
  \/ OAuthEnd

SpecOAuth == Init /\ [][OAuthNext]_vars

\* C30: under any interleaving of the requests of two accounts, between the
\* moment a request has obtained its client and its calendar call the shared
\* client holds that account's tokens, and the call is made with them.
C30_CallsUseOwnCredentials ==
  last.op = "oauth" =>
    \A userId \in Accounts :
      /\ last.pc[userId] = "calendar" => last.credentials = AccountTokens(userId)
      /\ last.pc[userId] = "listed" => last.used[userId] = AccountTokens(userId)

====
